---- MODULE Spec2Model ----
(***************************************************************************)
(* PPM bootloader (melexis/mcm-lib-ppm-bootloader).                        *)
(*                                                                         *)
(* The model covers the session engine (src/src/ppm_session.c), the        *)
(* bootloader orchestrator (ppm_bootloader part of src/src/rmt_ppm.c) and  *)
(* the receive queue of the line driver (rmt_ppm part of                   *)
(* src/src/rmt_ppm.c).  Words are 16 bit, bytes 8 bit; the target is a     *)
(* little-endian ESP32.                                                    *)
(***************************************************************************)
EXTENDS Integers, Sequences, FiniteSets, TLC

(***************************************************************************)
(* Program constants                                                       *)
(***************************************************************************)
\* ppm_err.h
PPM_OK == 0
PPM_FAIL_UNKNOWN == -1
PPM_FAIL_INTERNAL == -2
PPM_FAIL_SET_BAUD == -16
PPM_FAIL_BTL_ENTER_PPM_MODE == -17
PPM_FAIL_CALIBRATION == -18
PPM_FAIL_UNLOCK == -19
PPM_FAIL_CHIP_NOT_SUPPORTED == -20
PPM_FAIL_ACTION_NOT_SUPPORTED == -21
PPM_FAIL_INV_HEX_FILE == -22
PPM_FAIL_MISSING_DATA == -23
PPM_FAIL_PROGRAMMING_FAILED == -24
PPM_FAIL_VERIFY_FAILED == -25

\* ppm_types.h: session_id_t
PPM_SESSION_PROG_KEYS == 3
PPM_SESSION_FLASH_PROG == 4
PPM_SESSION_EEPROM_PROG == 6
PPM_SESSION_FLASH_CS_PROG == 7
PPM_SESSION_FLASH_CRC == 67
PPM_SESSION_UNLOCK == 68
PPM_SESSION_CHIP_RESET == 69
PPM_SESSION_EEPROM_CRC == 71
PPM_SESSION_FLASH_CS_CRC == 72

\* rmt_ppm.c: xQueueCreate(4, sizeof(ppm_tx_item_t))
RX_QUEUE_LENGTH == 4

\* send_page_frame: data_length <= 128u
MAX_PAGE_WORDS == 128

(***************************************************************************)
(* Fixed-width arithmetic                                                  *)
(***************************************************************************)
W16(x) == x % 65536
W8(x) == x % 256
Hi8(w) == (w \div 256) % 256
Lo8(w) == w % 256

\* floor(log2(n)) for n >= 1
Log2Floor(n) == CHOOSE e \in 0..30 : n \div (2^e) = 1

\* ceil((double)n / 2) as used for the byte-to-word lengths
CeilHalf(n) == (n + 1) \div 2

\* ceil((float)a / b): a is below 2^24 so the conversion to float is exact;
\* the division rounds the quotient to a 24 bit significand (nearest, ties
\* to even) and ceil() is applied to the rounded quotient.
CeilFloatDiv(a, b) ==
    LET n == a \div b
        r == a % b
    IN  IF r = 0 THEN n
        ELSE IF n = 0 THEN 1
        ELSE LET e    == Log2Floor(n)
                 s    == 2^(23 - e)
                 t    == r * s
                 fl   == t \div b
                 rem  == t % b
                 frac == IF (2 * rem > b) \/ (2 * rem = b /\ fl % 2 = 1)
                         THEN fl + 1 ELSE fl
             IN  IF frac > 0 THEN n + 1 ELSE n

(***************************************************************************)
(* Session descriptors (ppm_session.h)                                     *)
(***************************************************************************)
SessionConfig(id, ps, retry, t0, tx, ts, crc) ==
    [session_id |-> id, page_size |-> ps, request_ack |-> TRUE,
     page_retry |-> retry, page0_ack_timeout |-> t0, pageX_ack_timeout |-> tx,
     session_ack_timeout |-> ts, crc_func |-> crc]

PPM_SESSION_UNLOCK_DEFAULT ==
    SessionConfig(PPM_SESSION_UNLOCK, 0, 5, 0, 0, 10, "NULL")
PPM_SESSION_PROG_KEYS_DEFAULT ==
    SessionConfig(PPM_SESSION_PROG_KEYS, 8, 1, 25, 10, 10, "NULL")
PPM_SESSION_FLASH_PROG_AMALTHEA_DEFAULT ==
    SessionConfig(PPM_SESSION_FLASH_PROG, 64, 5, 100, 10, 10, "crc_calc24bitCrc")
PPM_SESSION_EEPROM_PROG_DEFAULT ==
    SessionConfig(PPM_SESSION_EEPROM_PROG, 4, 5, 15, 15, 17, "NULL")
PPM_SESSION_FLASH_CS_PROG_DEFAULT ==
    SessionConfig(PPM_SESSION_FLASH_CS_PROG, 64, 5, 50, 7, 15, "NULL")
PPM_SESSION_FLASH_CRC_DEFAULT ==
    SessionConfig(PPM_SESSION_FLASH_CRC, 0, 5, 0, 0, 5, "NULL")
PPM_SESSION_EEPROM_CRC_DEFAULT ==
    SessionConfig(PPM_SESSION_EEPROM_CRC, 0, 5, 0, 0, 5, "NULL")
PPM_SESSION_FLASH_CS_CRC_DEFAULT ==
    SessionConfig(PPM_SESSION_FLASH_CS_CRC, 0, 5, 0, 0, 5, "NULL")
PPM_SESSION_CHIP_RESET_DEFAULT ==
    SessionConfig(PPM_SESSION_CHIP_RESET, 0, 5, 0, 0, 10, "NULL")

(***************************************************************************)
(* Frames of the session engine (ppm_session.c)                            *)
(***************************************************************************)
\* variant: the quotient is truncated
page_count_floor(page_size, page_data_len) ==
    IF page_size # 0 THEN W16(page_data_len \div page_size) ELSE 0

\* handle_session: page_count = ceil((float)page_data_len / page_size),
\* stored in a uint16_t; 0 when the page size is 0.
handle_session_page_count(page_size, page_data_len) ==
    IF page_size # 0 THEN W16(CeilFloatDiv(page_data_len, page_size)) ELSE 0

\* send_session_frame: the four words of a session frame
send_session_frame(config, page_count, offset, checksum) ==
    LET session_command ==
            IF config.request_ack
            THEN W8(config.session_id) + (IF W8(config.session_id) < 128 THEN 128 ELSE 0)
            ELSE W8(config.session_id)
    IN  << session_command * 256 + config.page_size, page_count, offset, checksum >>

\* the chip answers a session frame at once when the session has no pages
\* (the ids with bit 6 set, or a page count of 0), else when it has
\* acknowledged the last page
Pageless(w) == (w[1] \div 256) % 128 >= 64 \/ w[2] = 0

\* crc_calcPageChecksum (mlx_crc, external): an 8 bit checksum over the words
RECURSIVE SumBytes(_)
SumBytes(words) ==
    IF words = <<>> THEN 0
    ELSE IF Len(words) = 1 THEN Hi8(Head(words)) + Lo8(Head(words))
    ELSE LET h == Len(words) \div 2
         IN  SumBytes(SubSeq(words, 1, h)) + SumBytes(SubSeq(words, h + 1, Len(words)))

crc_calcPageChecksum(words) == W8(SumBytes(words))

\* word at 0-based index i of the memory behind a pointer; a read past the
\* end of the allocation yields the indeterminate value oob
ReadWord(mem, i, oob) == IF i < Len(mem) THEN mem[i + 1] ELSE oob

\* memcpy(dst, &src[off], n): n BYTES are copied; dst keeps what is not
\* overwritten (little-endian: the low byte of a word is at the low address)
memcpy(dst, src, off, n, oob) ==
    [j \in 1..Len(dst) |->
        IF 2 * j <= n THEN ReadWord(src, off + j - 1, oob)
        ELSE IF 2 * j - 1 = n
             THEN Hi8(dst[j]) * 256 + Lo8(ReadWord(src, off + j - 1, oob))
             ELSE dst[j]]

Zeros(n) == [j \in 1..n |-> 0]

\* variant: the checksum in the high byte of the header word
send_page_frame_swapped(sequence_number, page_checksum, data_words, data_length) ==
    << page_checksum * 256 + sequence_number >>
        \o memcpy(Zeros(data_length), data_words, 0, data_length, 0)

\* send_page_frame: header word and data words of a page frame
send_page_frame(sequence_number, page_checksum, data_words, data_length) ==
    << sequence_number * 256 + page_checksum >>
        \o memcpy(Zeros(data_length), data_words, 0, data_length, 0)

(***************************************************************************)
(* Bounds of the model                                                     *)
(***************************************************************************)
\* frames the chip may send in answer to one frame of the host
MaxReplies == 1
\* words of payload a caller of the session API hands over
MaxWords == 4
\* page sizes [words] a caller of the session API configures
MaxPageSize == 2
\* attempts per page a caller of the session API configures
MaxRetry == 3
\* pages of the longest session
MaxPages == 258
\* receive completions the line driver sees between two set-ups
MaxArrivals == 7
\* longest byte buffer whose frame is put on the line and decoded
MaxFrameBytes == 259
\* the bitrates 1..MaxSmallBitrate [bps] are set, next to the large ones
MaxSmallBitrate == 100

(***************************************************************************)
(* State                                                                   *)
(***************************************************************************)
VARIABLES
    pc,        \* where the foreground caller is suspended ("idle": no call)
    args,      \* arguments of the running call
    loc,       \* locals of the orchestrator functions on the call stack
    retval,    \* value returned by the last call
    sess,      \* locals of handle_session
    rx_queue,  \* rx_queue: decoded frames not yet consumed
    bus,       \* the line and the chip on it
    last_tx,   \* last frame the line transmitted
    obs        \* what an observer of the line saw of the running call

vars == << pc, args, loc, retval, sess, rx_queue, bus, last_tx, obs >>

NoFrame == [type |-> "ftUnknown", data |-> <<>>]

NoSession ==
    [state |-> "none", config |-> PPM_SESSION_UNLOCK_DEFAULT, offset |-> 0,
     checksum |-> 0, has_data |-> FALSE, page_data |-> <<>>, page_data_len |-> 0,
     page_count |-> 0, seqnr |-> 0, retry |-> 0, page_checksum |-> 0,
     page_data_words |-> <<>>, blPageSuccess |-> TRUE, ret_len |-> 0,
     rx_null |-> TRUE, rx_data |-> <<>>]

\* handle_session(config, offset, checksum, page_data, page_data_len, &rx_data)
\* entered: page_data is the memory readable behind the pointer (has_data is
\* FALSE for a NULL pointer); *rx_data is NULL in every caller.
NewSession(config, offset, checksum, has_data, page_data, page_data_len) ==
    [NoSession EXCEPT !.state = "start", !.config = config, !.offset = offset,
                      !.checksum = checksum, !.has_data = has_data,
                      !.page_data = page_data, !.page_data_len = page_data_len]

NoObs ==
    [sessions |-> <<>>,   \* ids of the session frames handed to the line, this call
     frames |-> <<>>,     \* the words of these session frames
     pages_ok |-> 0,      \* pages declared successful, this session
     attempts |-> 0,      \* attempts made for the current page
     page_tx |-> 0,       \* page frames transmitted for the current page
     acks_failed |-> 0,   \* page acks of the current page that timed out or mismatched
     ack_waits |-> 0,     \* waits for a session ack (or session delay), this session
     tx_failed |-> FALSE, \* the line refused a frame, this call
     delays |-> <<>>,     \* vTaskDelay calls [ms], this session
     wait |-> 0,          \* timeout [ms] of the last wait for a frame
     stale |-> 0,         \* queued frames older than the last frame transmitted
     aborted |-> <<>>,    \* ids of the sessions given up after page_retry attempts
     chip_crc |-> <<>>,   \* CRCs the CRC sessions of this call wrote to chip_crc
     oob |-> {},          \* indices at which a reply was accessed past its last word
     steps |-> <<>>]      \* what the orchestrator called besides sessions, this call

NewSessionObs(o, id) ==
    [o EXCEPT !.sessions = Append(@, id), !.pages_ok = 0, !.attempts = 0,
              !.page_tx = 0, !.acks_failed = 0, !.ack_waits = 0, !.delays = <<>>,
              !.wait = 0]

\* the per-page counters restart with the first attempt of a page
PageObs(o, retry) ==
    IF retry = 0 THEN [o EXCEPT !.attempts = 0, !.page_tx = 0, !.acks_failed = 0] ELSE o

(***************************************************************************)
(* handle_session                                                          *)
(***************************************************************************)
\* values an out-of-bounds read may yield
OobWords == {0, 65535}

\* the page loop reads page_size bytes at &page_data[seqnr * page_size]
ReadsPastEnd(s, seqnr) ==
    /\ s.config.page_size > 0
    /\ seqnr * s.config.page_size + ((s.config.page_size + 1) \div 2) > Len(s.page_data)

\* variant: the loop over the pages ends one page early
enter_page_ends_early(s, seqnr, oob) ==
    IF seqnr + 1 < s.page_count
    THEN LET words == memcpy(s.page_data_words, s.page_data,
                             seqnr * s.config.page_size, s.config.page_size, oob)
         IN  [s EXCEPT !.seqnr = seqnr, !.retry = 0, !.page_data_words = words,
                       !.page_checksum = crc_calcPageChecksum(words),
                       !.blPageSuccess = FALSE,
                       !.state = IF s.config.page_retry > 0 THEN "page_tx" ELSE "done"]
    ELSE [s EXCEPT !.seqnr = seqnr, !.state = "session_ack"]

\* head of the seqnr loop (lines 239-246): fetch the page, checksum it and
\* enter the retry loop; past the last page the loop is left successfully
enter_page(s, seqnr, oob) ==
    IF seqnr < s.page_count
    THEN LET words == memcpy(s.page_data_words, s.page_data,
                             seqnr * s.config.page_size, s.config.page_size, oob)
         IN  [s EXCEPT !.seqnr = seqnr, !.retry = 0, !.page_data_words = words,
                       !.page_checksum = crc_calcPageChecksum(words),
                       !.blPageSuccess = FALSE,
                       !.state = IF s.config.page_retry > 0 THEN "page_tx" ELSE "done"]
    ELSE [s EXCEPT !.seqnr = seqnr, !.state = "session_ack"]

\* variant: a failed attempt uses up two of the page_retry attempts
attempt_failed_counts_twice(s) ==
    IF s.retry + 2 < s.config.page_retry
    THEN [s EXCEPT !.retry = s.retry + 2, !.state = "page_tx"]
    ELSE [s EXCEPT !.retry = s.retry + 2, !.state = "done"]

\* variant: the retry loop runs while retry <= page_retry
attempt_failed_one_more(s) ==
    IF s.retry + 1 <= s.config.page_retry
    THEN [s EXCEPT !.retry = s.retry + 1, !.state = "page_tx"]
    ELSE [s EXCEPT !.retry = s.retry + 1, !.state = "done"]

\* an attempt failed (lines 246, 283-286): next retry, or give the session up
attempt_failed(s) ==
    IF s.retry + 1 < s.config.page_retry
    THEN [s EXCEPT !.retry = s.retry + 1, !.state = "page_tx"]
    ELSE [s EXCEPT !.retry = s.retry + 1, !.state = "done"]

\* the observer's note of a failed attempt that ends the session
AbortObs(o, s) ==
    IF s.state = "done" THEN [o EXCEPT !.aborted = Append(@, s.config.session_id)] ELSE o

\* rmt_ppm_send_frame fails (rmt_ppm.c:482-502): the receiver was disabled
\* (line 482) and no transmit completion arms it again, so that an answer
\* still under way is not received any more.  Until then the receiver
\* listens on, also after a wait for a frame has timed out.
receiver_off(b) == [b EXCEPT !.page_acks = 0, !.session_acks = 0]

\* lines 224-238: page count, session frame, first page
handle_session_start ==
    /\ sess.state = "start"
    /\ LET pcnt  == handle_session_page_count(sess.config.page_size, sess.page_data_len)
           frame == [type |-> "ftSession",
                     data |-> send_session_frame(sess.config, pcnt, sess.offset,
                                                 sess.checksum)]
           s1    == [sess EXCEPT !.page_count = pcnt]
           o1    == [NewSessionObs(obs, (frame.data[1] \div 256) % 128) EXCEPT
                        !.frames = Append(@, frame.data)]
       IN  \E tx_ok \in BOOLEAN :
              IF tx_ok
              THEN /\ obs' = [o1 EXCEPT !.stale = Len(rx_queue)]
                   /\ last_tx' = frame
                   /\ bus' = [bus EXCEPT !.session = frame.data,
                                          !.ack = sess.config.request_ack,
                                          !.page_acks = 0,
                                          !.session_acks =
                                              IF sess.config.request_ack
                                                 /\ ~Pageless(frame.data)
                                              THEN 0 ELSE MaxReplies]
                   /\ IF sess.has_data /\ pcnt # 0
                      THEN \E oob \in (IF ReadsPastEnd(s1, 0) THEN OobWords ELSE {0}) :
                              sess' = enter_page([s1 EXCEPT !.page_data_words =
                                                      Zeros(sess.config.page_size)], 0, oob)
                      ELSE sess' = [s1 EXCEPT !.state = "session_ack"]
              ELSE /\ obs' = [o1 EXCEPT !.tx_failed = TRUE]
                   /\ sess' = [s1 EXCEPT !.state = "done"]
                   /\ bus' = receiver_off(bus)
                   /\ UNCHANGED last_tx
    /\ UNCHANGED << pc, args, loc, retval, rx_queue >>

\* lines 247-262: one attempt: the page frame is sent; without ack the
\* engine waits the page time and goes on
handle_session_send_page ==
    /\ sess.state = "page_tx"
    /\ LET frame == [type |-> "ftPage",
                     data |-> send_page_frame(W8(sess.seqnr), W8(sess.page_checksum),
                                              sess.page_data_words,
                                              sess.config.page_size)]
           timeout == IF sess.seqnr = 0 THEN sess.config.page0_ack_timeout
                      ELSE sess.config.pageX_ack_timeout
           o1 == [PageObs(obs, sess.retry) EXCEPT !.attempts = @ + 1]
       IN  \E tx_ok \in BOOLEAN :
           IF sess.config.page_size <= MAX_PAGE_WORDS /\ tx_ok
           THEN /\ last_tx' = frame
                /\ bus' = [bus EXCEPT !.page_acks =
                                           IF sess.config.request_ack THEN MaxReplies ELSE 0]
                /\ IF ~sess.config.request_ack
                   THEN /\ obs' = [o1 EXCEPT !.page_tx = @ + 1, !.pages_ok = @ + 1,
                                             !.delays = Append(@, timeout),
                                             !.stale = Len(rx_queue)]
                        /\ \E oob \in (IF ReadsPastEnd(sess, sess.seqnr + 1)
                                          /\ sess.seqnr + 1 < sess.page_count
                                       THEN OobWords ELSE {0}) :
                              sess' = enter_page([sess EXCEPT !.blPageSuccess = TRUE],
                                                 sess.seqnr + 1, oob)
                   ELSE /\ obs' = [o1 EXCEPT !.page_tx = @ + 1,
                                             !.stale = Len(rx_queue)]
                        /\ sess' = [sess EXCEPT !.state = "page_ack"]
           ELSE /\ obs' = AbortObs([o1 EXCEPT !.tx_failed = TRUE], attempt_failed(sess))
                /\ sess' = attempt_failed(sess)
                /\ bus' = receiver_off(bus)
                /\ UNCHANGED last_tx
    /\ UNCHANGED << pc, args, loc, retval, rx_queue >>


\* variant: the words of a frame of either type are handed on
receive_page_ack_any_type(got, item) ==
    IF got THEN Len(item.data) ELSE 0

\* receive_page_ack (lines 194-216): the length of the response; the words of
\* a frame that is not a page frame are dropped and the length stays 0
receive_page_ack(got, item) ==
    IF got /\ item.type = "ftPage" THEN Len(item.data) ELSE 0

\* lines 264-279 with receive_page_ack and rmt_ppm_wait_for_response_frame:
\* the head of the queue is taken, or the wait times out on an empty queue
handle_session_page_ack ==
    /\ sess.state = "page_ack"
    /\ LET got      == rx_queue # <<>>
           item     == IF got THEN Head(rx_queue) ELSE NoFrame
           resp_len == receive_page_ack(got, item)
           matches  == /\ got
                       /\ resp_len > 0
                       /\ item.data[1] = W8(sess.seqnr) * 256 + W8(sess.page_checksum)
           timeout  == IF sess.seqnr = 0 THEN sess.config.page0_ack_timeout
                       ELSE sess.config.pageX_ack_timeout
       IN  /\ rx_queue' = IF got THEN Tail(rx_queue) ELSE rx_queue
           /\ IF matches
              THEN /\ obs' = [obs EXCEPT !.pages_ok = @ + 1, !.wait = timeout,
                                        !.stale = IF @ > 0 THEN @ - 1 ELSE 0]
                   /\ \E oob \in (IF ReadsPastEnd(sess, sess.seqnr + 1)
                                     /\ sess.seqnr + 1 < sess.page_count
                                  THEN OobWords ELSE {0}) :
                         sess' = enter_page([sess EXCEPT !.blPageSuccess = TRUE],
                                            sess.seqnr + 1, oob)
              ELSE /\ obs' = AbortObs([obs EXCEPT !.acks_failed = @ + 1,
                                                   !.wait = timeout,
                                                   !.stale = IF @ > 0 THEN @ - 1
                                                             ELSE 0],
                                      attempt_failed(sess))
                   /\ sess' = attempt_failed(sess)
    /\ UNCHANGED << pc, args, loc, retval, last_tx, bus >>

\* variant: the reply is passed on as received
receive_session_ack_as_received(got, item) ==
    IF got /\ item.type = "ftSession"
    THEN [rx_null |-> FALSE, rx_lenght |-> Len(item.data), rx_data |-> item.data]
    ELSE [rx_null |-> TRUE, rx_lenght |-> 0, rx_data |-> <<>>]

\* variant: word 0 is decremented in the reply of the Unlock session only
receive_session_ack_unlock_only(got, item) ==
    IF got /\ item.type = "ftSession"
    THEN [rx_null |-> FALSE, rx_lenght |-> Len(item.data),
          rx_data |-> [item.data EXCEPT
                          ![1] = IF @ \div 256 = PPM_SESSION_UNLOCK
                                 THEN W16(@ + 65535) ELSE @]]
    ELSE [rx_null |-> TRUE, rx_lenght |-> 0, rx_data |-> <<>>]

\* receive_session_ack: the frame taken (if any) has its word 0 decremented
\* (MLX81332-77 workaround) and is dropped unless it is a session frame
receive_session_ack(got, item) ==
    IF got /\ item.type = "ftSession"
    THEN [rx_null |-> FALSE, rx_lenght |-> Len(item.data),
          rx_data |-> IF item.data = << >> THEN << >>
                      ELSE [item.data EXCEPT ![1] = W16(@ + 65535)]]
    ELSE [rx_null |-> TRUE, rx_lenght |-> 0, rx_data |-> <<>>]

\* lines 297-322: the session delay, or the wait for the session ack and its
\* validation
handle_session_session_ack ==
    /\ sess.state = "session_ack"
    /\ IF ~sess.config.request_ack
       THEN /\ obs' = [obs EXCEPT !.ack_waits = @ + 1,
                                  !.delays = Append(@, sess.config.session_ack_timeout)]
            /\ sess' = [sess EXCEPT !.state = "done"]
            /\ UNCHANGED << rx_queue, bus >>
       ELSE LET got  == rx_queue # <<>>
                item == IF got THEN Head(rx_queue) ELSE NoFrame
            IN  \* calloc(0, 2) of rmt_ppm_wait_for_response_frame may return
                \* NULL; a word past the end of the reply reads as oob
                \E null \in (IF got /\ item.data = << >> THEN BOOLEAN ELSE {FALSE}),
                   oob \in (IF got /\ Len(item.data) < 2 THEN OobWords ELSE {0}) :
                   LET ack  == IF null THEN receive_session_ack(FALSE, NoFrame)
                               ELSE receive_session_ack(got, item)
                       head == /\ ~ack.rx_null
                               /\ ReadWord(ack.rx_data, 0, oob)
                                     = sess.config.session_id * 256
                                          + sess.config.page_size
                       ok   == head /\ ReadWord(ack.rx_data, 1, oob) = sess.page_count
                       past == (IF got /\ ~null /\ item.data = << >> THEN {0} ELSE {})
                                  \cup (IF head /\ Len(ack.rx_data) < 2 THEN {1} ELSE {})
                   IN  /\ rx_queue' = IF got THEN Tail(rx_queue) ELSE rx_queue
                       /\ obs' = [obs EXCEPT !.ack_waits = @ + 1,
                                             !.wait = sess.config.session_ack_timeout,
                                             !.stale = IF @ > 0 THEN @ - 1 ELSE 0,
                                             !.oob = @ \cup past]
                       /\ sess' = [sess EXCEPT !.state = "done",
                                               !.ret_len = IF ok THEN ack.rx_lenght ELSE 0,
                                               !.rx_null = ~ok,
                                               !.rx_data = IF ok THEN ack.rx_data ELSE <<>>]
                       /\ UNCHANGED bus
    /\ UNCHANGED << pc, args, loc, retval, last_tx >>

(***************************************************************************)
(* The line and the chip                                                   *)
(***************************************************************************)
\* project ids the chip on the bus may report (the catalog knows some)
ProjectIds == {19762, 19763, 19764, 19765, 4660}

Crc24Words(crc) == << (crc \div 65536) % 256, crc % 65536 >>

\* words 2 and 3 the chip may put in its answer to a session frame
ReplyPayloads(id, w) ==
    IF id \in {PPM_SESSION_UNLOCK, PPM_SESSION_CHIP_RESET}
    THEN { << 0, bus.pid >> }
    ELSE IF id \in {PPM_SESSION_FLASH_CRC, PPM_SESSION_EEPROM_CRC,
                    PPM_SESSION_FLASH_CS_CRC}
    THEN { Crc24Words(loc.hex_crc), Crc24Words(loc.hex_crc + 1) }
    ELSE { << w[3], w[4] >>, << w[3], W16(w[4] + 1) >> }

\* frames the chip may send after a page frame of the host, in a session
\* that requests acknowledges: the page ack, or one with another checksum byte
ChipPageFrames ==
    IF last_tx.type # "ftPage" THEN {}
    ELSE LET h == last_tx.data[1]
         IN  { [type |-> "ftPage", data |-> << h >>],
               [type |-> "ftPage", data |-> << Hi8(h) * 256 + W8(Lo8(h) + 1) >>] }

\* frames the chip may send to end the session: the answer the protocol
\* asks for (word 0 is the command without the ack bit, plus 1), and answers
\* that are off in one field.  In a session that requests no acknowledges
\* the chip has nothing to say; what the line may deliver then is the session
\* frame itself.
ChipSessionFrames ==
    IF bus.session = << >> THEN {}
    ELSE LET w     == bus.session
             id_ps == w[1] % 32768
             id    == id_ps \div 256
         IN  IF bus.ack
             THEN { [type |-> "ftSession",
                     data |-> << W16(id_ps + d), w[2], p[1], p[2] >>] :
                       d \in {0, 1}, p \in ReplyPayloads(id, w) }
                  \cup { [type |-> "ftSession",
                          data |-> << W16(id_ps + 1), W16(w[2] + 1), w[3], w[4] >>] }
             ELSE { [type |-> "ftSession", data |-> w] }

\* variant: a full queue makes room by giving up its oldest frame
xQueueSend_overwrites(queue, item) ==
    IF Len(queue) < RX_QUEUE_LENGTH THEN Append(queue, item)
    ELSE Append(Tail(queue), item)

\* xQueueSend(rx_queue, &item, 0): the frame is dropped when the queue is full
xQueueSend(queue, item) ==
    IF Len(queue) < RX_QUEUE_LENGTH THEN Append(queue, item) ELSE queue

\* rx_done_cb (lines 294-300): a decoded frame is queued, or dropped when
\* the queue is full
rx_done_cb ==
    /\ \/ /\ bus.page_acks > 0
          /\ \E item \in ChipPageFrames :
                /\ rx_queue' = xQueueSend(rx_queue, item)
                /\ bus' = [bus EXCEPT !.page_acks = @ - 1,
                              !.session_acks =
                                  IF item.data = << last_tx.data[1] >>
                                     /\ Hi8(last_tx.data[1]) = W8(bus.session[2] + 255)
                                  THEN MaxReplies ELSE @]
       \/ /\ bus.session_acks > 0
          /\ \E item \in ChipSessionFrames : rx_queue' = xQueueSend(rx_queue, item)
          /\ bus' = [bus EXCEPT !.session_acks = @ - 1]
    /\ UNCHANGED << pc, args, loc, retval, sess, last_tx, obs >>

\* rx_done_cb (lines 294-300) for an answer to a page frame whose leading
\* pulse decodes as that of a session frame
rx_done_cb_session_tag ==
    /\ bus.page_acks > 0
    /\ last_tx.type = "ftPage"
    /\ rx_queue' = xQueueSend(rx_queue, [type |-> "ftSession",
                                         data |-> << last_tx.data[1] >>])
    /\ bus' = [bus EXCEPT !.page_acks = @ - 1]
    /\ UNCHANGED << pc, args, loc, retval, sess, last_tx, obs >>

(***************************************************************************)
(* Session entry points (ppm_session.c)                                    *)
(***************************************************************************)
\* (uint16_t *)bytes on a little-endian target
BytesAsWords(bytes) ==
    [i \in 1..(Len(bytes) \div 2) |-> bytes[2 * i - 1] + 256 * bytes[2 * i]]

\* mlx_crc (external): stand-ins that depend on every element and its place
RECURSIVE WeightedSum(_, _)
WeightedSum(seq, k) ==
    IF seq = <<>> THEN 0
    ELSE IF Len(seq) = 1 THEN (k * Head(seq)) % 16777216
    ELSE LET h == Len(seq) \div 2
         IN  (WeightedSum(SubSeq(seq, 1, h), k)
                + WeightedSum(SubSeq(seq, h + 1, Len(seq)), k + h)) % 16777216

crc_calc16bitCrc(bytes, len, init) == W16(init + WeightedSum(SubSeq(bytes, 1, len), 1))

crc_calc24bitCrc(words, len, init) ==
    (init + WeightedSum(SubSeq(words, 1, len), 1)) % 16777216

\* variant: an entry point that takes the missing reply for a failure even
\* when it asked for none
session_result_needs_reply(s, content) ==
    IF ~s.rx_null
    THEN IF s.ret_len = 4 /\ content THEN "ESP_OK" ELSE "ESP_FAIL"
    ELSE "ESP_FAIL"

\* result of an entry point from what handle_session returned (the common
\* tail of the ppmsession_do... functions); content is the check of the
\* reply's words made when it has 4 words
session_result(s, content) ==
    IF ~s.rx_null
    THEN IF s.ret_len = 4 /\ content THEN "ESP_OK" ELSE "ESP_FAIL"
    ELSE IF s.config.request_ack THEN "ESP_FAIL" ELSE "ESP_OK"

\* an output parameter: written, and then its value
Output(s, result, value) ==
    [result |-> result, written |-> (~s.rx_null) /\ result = "ESP_OK",
     value |-> IF (~s.rx_null) /\ result = "ESP_OK" THEN value ELSE 0]

ppmsession_doUnlock_call(config) ==
    NewSession(config, 33652, 48914, FALSE, <<>>, 0)

ppmsession_doUnlock_ret(s) ==
    Output(s, session_result(s, TRUE), IF Len(s.rx_data) >= 4 THEN s.rx_data[4] ELSE 0)

ppmsession_doFlashProgKeys_call(config, prog_keys, length) ==
    NewSession(config, 48830, 48830, TRUE, prog_keys, length)

ppmsession_doFlashProgKeys_ret(s) ==
    Output(s, session_result(s, s.rx_data[3] = 48830 /\ s.rx_data[4] = 48830), 0)

\* flash_words: the image as words, followed by a copy of its first page
flash_words_rotated(flash_bytes, words_length, page_size) ==
    LET base == [c \in 1..words_length |->
                    flash_bytes[2 * c - 1] + 256 * flash_bytes[2 * c]]
    IN  [c \in 1..(words_length + page_size) |->
            IF c <= words_length THEN base[c]
            ELSE IF words_length = 0 THEN 0
            ELSE base[((c - words_length - 1) % words_length) + 1]]

ppmsession_doFlashProgramming_call(config, flash_bytes, length) ==
    LET words_length == W16(CeilHalf(length))
        flash_words  == flash_words_rotated(flash_bytes, words_length, config.page_size)
        flash_crc    == crc_calc24bitCrc(flash_words, words_length, 1)
    IN  NewSession(config, (flash_crc \div 65536) % 256, flash_crc % 65536, TRUE,
                   SubSeq(flash_words, config.page_size + 1,
                          words_length + config.page_size),
                   words_length)

ppmsession_doFlashProgramming_ret(s) ==
    Output(s, session_result(s, s.rx_data[3] = s.offset /\ s.rx_data[4] = s.checksum), 0)

\* variant: the offset of the session frame is the byte offset
page_offset_in_bytes(mem_offset, page_size) == W16(mem_offset)

\* ceil((double)mem_offset / 2 / page_size)
page_offset(mem_offset, page_size) ==
    W16((mem_offset + 2 * page_size - 1) \div (2 * page_size))

ppmsession_doEepromProgramming_call(config, mem_offset, data_bytes, data_length) ==
    NewSession(config, page_offset(mem_offset, config.page_size),
               crc_calc16bitCrc(data_bytes, data_length, 7439), TRUE,
               BytesAsWords(data_bytes), W16(CeilHalf(data_length)))

ppmsession_doEepromProgramming_ret(s) ==
    Output(s, session_result(s, s.rx_data[4] = s.checksum), 0)

ppmsession_doFlashCsProgramming_call(config, data_bytes, data_length) ==
    NewSession(config, 0, crc_calc16bitCrc(data_bytes, data_length, 7439), TRUE,
               BytesAsWords(data_bytes), W16(CeilHalf(data_length)))

ppmsession_doFlashCsProgramming_ret(s) ==
    Output(s, session_result(s, s.rx_data[3] = 0 /\ s.rx_data[4] = s.checksum), 0)

\* variant: the CRC session is handed the words to sum as page data
ppmsession_doFlashCrc_call_with_data(config, length) ==
    NewSession(config, 0, 0, TRUE, Zeros(W16(CeilHalf(length))), W16(CeilHalf(length)))

ppmsession_doFlashCrc_call(config, length) ==
    NewSession(config, 0, 0, FALSE, <<>>, W16(CeilHalf(length)))

\* variant: the CRC is taken from the last word of the reply alone
ppmsession_doFlashCrc_ret_low_word(s) ==
    Output(s, session_result(s, TRUE), IF Len(s.rx_data) >= 4 THEN s.rx_data[4] ELSE 0)

ppmsession_doFlashCrc_ret(s) ==
    Output(s, session_result(s, TRUE),
           IF Len(s.rx_data) >= 4
           THEN (s.rx_data[3] % 256) * 65536 + s.rx_data[4] ELSE 0)

ppmsession_doEepromCrc_call(config, offset, length) ==
    NewSession(config, page_offset(offset, config.page_size), 0, FALSE, <<>>,
               W16(CeilHalf(length)))

ppmsession_doEepromCrc_ret(s) ==
    Output(s, session_result(s, TRUE), IF Len(s.rx_data) >= 4 THEN s.rx_data[4] ELSE 0)

ppmsession_doFlashCsCrc_call(config, length) ==
    NewSession(config, 0, 0, FALSE, <<>>, W16(CeilHalf(length)))

ppmsession_doFlashCsCrc_ret(s) ==
    Output(s, session_result(s, TRUE), IF Len(s.rx_data) >= 4 THEN s.rx_data[4] ELSE 0)

ppmsession_doChipReset_call(config) ==
    NewSession(config, 0, 0, FALSE, <<>>, 0)

ppmsession_doChipReset_ret(s) ==
    Output(s, session_result(s, TRUE), IF Len(s.rx_data) >= 4 THEN s.rx_data[4] ELSE 0)

(***************************************************************************)
(* A caller of the session API (ppm_session.h)                             *)
(***************************************************************************)
EntryPoints ==
    {"ppmsession_doUnlock", "ppmsession_doFlashProgKeys",
     "ppmsession_doFlashProgramming", "ppmsession_doEepromProgramming",
     "ppmsession_doFlashCsProgramming", "ppmsession_doFlashCrc",
     "ppmsession_doEepromCrc", "ppmsession_doFlashCsCrc", "ppmsession_doChipReset"}

\* the entry points that send pages
PageEntryPoints ==
    {"ppmsession_doFlashProgKeys", "ppmsession_doFlashProgramming",
     "ppmsession_doEepromProgramming", "ppmsession_doFlashCsProgramming"}

DefaultConfig(entry) ==
    CASE entry = "ppmsession_doUnlock" -> PPM_SESSION_UNLOCK_DEFAULT
      [] entry = "ppmsession_doFlashProgKeys" -> PPM_SESSION_PROG_KEYS_DEFAULT
      [] entry = "ppmsession_doFlashProgramming" -> PPM_SESSION_FLASH_PROG_AMALTHEA_DEFAULT
      [] entry = "ppmsession_doEepromProgramming" -> PPM_SESSION_EEPROM_PROG_DEFAULT
      [] entry = "ppmsession_doFlashCsProgramming" -> PPM_SESSION_FLASH_CS_PROG_DEFAULT
      [] entry = "ppmsession_doFlashCrc" -> PPM_SESSION_FLASH_CRC_DEFAULT
      [] entry = "ppmsession_doEepromCrc" -> PPM_SESSION_EEPROM_CRC_DEFAULT
      [] entry = "ppmsession_doFlashCsCrc" -> PPM_SESSION_FLASH_CS_CRC_DEFAULT
      [] entry = "ppmsession_doChipReset" -> PPM_SESSION_CHIP_RESET_DEFAULT

\* page sizes [words] the caller configures; the entry points that divide by
\* the page size need one that is not 0
ApiPageSizes(entry) ==
    IF entry \in {"ppmsession_doEepromProgramming", "ppmsession_doEepromCrc"}
    THEN 1..MaxPageSize
    ELSE IF entry \in {"ppmsession_doUnlock", "ppmsession_doChipReset"}
    THEN {0, MaxPageSize}
    ELSE 0..MaxPageSize

\* page_retry the caller configures
ApiRetries(entry) == IF entry \in PageEntryPoints THEN {1, MaxRetry} ELSE {MaxRetry}

\* byte buffers of a whole number of words, all bytes different
ApiBytes(n) == [i \in 1..(2 * n) |-> 16 * i + 1]

\* data and length arguments: the entry points without a length get none
ApiData(entry) ==
    IF entry \in {"ppmsession_doUnlock", "ppmsession_doChipReset"}
    THEN { ApiBytes(0) }
    ELSE { ApiBytes(n) : n \in 0..MaxWords }

\* memory offsets [bytes] of the EEPROM entry points
ApiOffsets(entry, ps) ==
    IF entry \in {"ppmsession_doEepromProgramming", "ppmsession_doEepromCrc"}
    THEN {0, 2 * ps} ELSE {0}

NoArgs == [entry |-> "none", config |-> PPM_SESSION_UNLOCK_DEFAULT, data |-> <<>>,
           mem_offset |-> 0]

NoRet == [result |-> "none", written |-> FALSE, value |-> 0]

api_session(a) ==
    CASE a.entry = "ppmsession_doUnlock" -> ppmsession_doUnlock_call(a.config)
      [] a.entry = "ppmsession_doFlashProgKeys" ->
            ppmsession_doFlashProgKeys_call(a.config, BytesAsWords(a.data),
                                            Len(a.data) \div 2)
      [] a.entry = "ppmsession_doFlashProgramming" ->
            ppmsession_doFlashProgramming_call(a.config, a.data, Len(a.data))
      [] a.entry = "ppmsession_doEepromProgramming" ->
            ppmsession_doEepromProgramming_call(a.config, a.mem_offset, a.data,
                                                Len(a.data))
      [] a.entry = "ppmsession_doFlashCsProgramming" ->
            ppmsession_doFlashCsProgramming_call(a.config, a.data, Len(a.data))
      [] a.entry = "ppmsession_doFlashCrc" ->
            ppmsession_doFlashCrc_call(a.config, Len(a.data))
      [] a.entry = "ppmsession_doEepromCrc" ->
            ppmsession_doEepromCrc_call(a.config, a.mem_offset, Len(a.data))
      [] a.entry = "ppmsession_doFlashCsCrc" ->
            ppmsession_doFlashCsCrc_call(a.config, Len(a.data))
      [] a.entry = "ppmsession_doChipReset" -> ppmsession_doChipReset_call(a.config)

api_result(entry, s) ==
    CASE entry = "ppmsession_doUnlock" -> ppmsession_doUnlock_ret(s)
      [] entry = "ppmsession_doFlashProgKeys" -> ppmsession_doFlashProgKeys_ret(s)
      [] entry = "ppmsession_doFlashProgramming" -> ppmsession_doFlashProgramming_ret(s)
      [] entry = "ppmsession_doEepromProgramming" -> ppmsession_doEepromProgramming_ret(s)
      [] entry = "ppmsession_doFlashCsProgramming" -> ppmsession_doFlashCsProgramming_ret(s)
      [] entry = "ppmsession_doFlashCrc" -> ppmsession_doFlashCrc_ret(s)
      [] entry = "ppmsession_doEepromCrc" -> ppmsession_doEepromCrc_ret(s)
      [] entry = "ppmsession_doFlashCsCrc" -> ppmsession_doFlashCsCrc_ret(s)
      [] entry = "ppmsession_doChipReset" -> ppmsession_doChipReset_ret(s)

\* locals of the orchestrator: chip_info is 0 for NULL, project_id is 0 until
\* ppmbtl_enterProgrammingMode looks the chip up
NoLoc == [chip_info |-> 0, project_id |-> 0, retval |-> 0, hex_crc |-> 0, currAddr |-> 0]

InitBus == [session |-> << >>, ack |-> FALSE, page_acks |-> 0, session_acks |-> 0,
            pid |-> 19762]

\* the state after rmt_ppm_init
Init ==
    /\ pc = "idle"
    /\ args = NoArgs
    /\ loc = NoLoc
    /\ retval = NoRet
    /\ sess = NoSession
    /\ rx_queue = <<>>
    /\ bus = InitBus
    /\ last_tx = NoFrame
    /\ obs = NoObs

\* an entry point is called
api_call ==
    /\ pc = "idle"
    /\ \E entry \in EntryPoints, ack \in BOOLEAN :
       \E ps \in ApiPageSizes(entry), retry \in ApiRetries(entry),
          data \in ApiData(entry) :
       \E off \in ApiOffsets(entry, ps) :
          /\ args' = [entry |-> entry,
                      config |-> [DefaultConfig(entry) EXCEPT !.request_ack = ack,
                                      !.page_size = ps, !.page_retry = retry],
                      data |-> data, mem_offset |-> off]
          /\ sess' = api_session(args')
    /\ pc' = "api"
    /\ UNCHANGED << loc, retval, rx_queue, bus, last_tx, obs >>

\* the entry point returns
api_return ==
    /\ pc = "api"
    /\ sess.state = "done"
    /\ retval' = api_result(args.entry, sess)
    /\ pc' = "returned"
    /\ sess' = [sess EXCEPT !.state = "none"]
    /\ UNCHANGED << args, loc, rx_queue, bus, last_tx, obs >>

\* rmt_ppm_deinit and rmt_ppm_init: the caller sets the line driver up anew,
\* with a new, empty receive queue
rmt_ppm_init ==
    /\ pc = "returned"
    /\ pc' = "idle"
    /\ args' = NoArgs
    /\ loc' = NoLoc
    /\ retval' = NoRet
    /\ sess' = NoSession
    /\ rx_queue' = <<>>
    /\ bus' = InitBus
    /\ last_tx' = NoFrame
    /\ obs' = NoObs

NextSession ==
    \/ api_call
    \/ handle_session_start
    \/ handle_session_send_page
    \/ handle_session_page_ack
    \/ handle_session_session_ack
    \/ api_return
    \/ rx_done_cb
    \/ rmt_ppm_init

SpecSession == Init /\ [][NextSession]_vars

(***************************************************************************)
(* The session API with pages at the limit of send_page_frame              *)
(***************************************************************************)
\* an entry point that sends pages is called with a page size of 128 or 129
\* words (page_size is a uint8_t) and one or two whole pages of data
api_call_page ==
    /\ pc = "idle"
    /\ \E entry \in PageEntryPoints, ack \in BOOLEAN,
          ps \in {MAX_PAGE_WORDS, MAX_PAGE_WORDS + 1}, retry \in {1, MaxRetry},
          pages \in 1..2 :
          /\ args' = [entry |-> entry,
                      config |-> [DefaultConfig(entry) EXCEPT !.request_ack = ack,
                                      !.page_size = ps, !.page_retry = retry],
                      data |-> [i \in 1..(2 * pages * ps) |-> (7 * i + 1) % 256],
                      mem_offset |-> 0]
          /\ sess' = api_session(args')
    /\ pc' = "api"
    /\ UNCHANGED << loc, retval, rx_queue, bus, last_tx, obs >>

NextPage ==
    \/ api_call_page
    \/ handle_session_start
    \/ handle_session_send_page
    \/ handle_session_page_ack
    \/ handle_session_session_ack
    \/ api_return
    \/ rx_done_cb
    \/ rx_done_cb_session_tag
    \/ rmt_ppm_init

SpecPage == Init /\ [][NextPage]_vars

(***************************************************************************)
(* The session API with more pages than a byte counts                      *)
(***************************************************************************)
\* an entry point that sends pages is called with MaxPages pages of one
\* word and one or two attempts per page
api_call_pages ==
    /\ pc = "idle"
    /\ \E entry \in PageEntryPoints, ack \in BOOLEAN, ps \in {1}, retry \in {1, 2} :
          /\ args' = [entry |-> entry,
                      config |-> [DefaultConfig(entry) EXCEPT !.request_ack = ack,
                                      !.page_size = ps, !.page_retry = retry],
                      data |-> [i \in 1..(2 * MaxPages * ps) |-> (7 * i + 1) % 256],
                      mem_offset |-> 0]
          /\ sess' = api_session(args')
    /\ pc' = "api"
    /\ UNCHANGED << loc, retval, rx_queue, bus, last_tx, obs >>

NextPages ==
    \/ api_call_pages
    \/ handle_session_start
    \/ handle_session_send_page
    \/ handle_session_page_ack
    \/ handle_session_session_ack
    \/ api_return
    \/ rx_done_cb
    \/ rmt_ppm_init

SpecPages == Init /\ [][NextPages]_vars

(***************************************************************************)
(* The chip catalog (mlx_chip, external) and the HEX container (intelhex,  *)
(* external) as the orchestrator uses them                                 *)
(***************************************************************************)
\* memory descriptors: addresses and lengths in bytes, times in ms
CatalogFlash ==
    [start |-> 0, length |-> 12, writeable |-> 12, page |-> 4, erase_unit |-> 4,
     erase_time |-> 5, write_time |-> 5]
CatalogFlashCs ==
    [start |-> 64, length |-> 12, writeable |-> 8, page |-> 4, erase_unit |-> 4,
     erase_time |-> 3, write_time |-> 3]
CatalogNvMemory ==
    [start |-> 128, length |-> 20, writeable |-> 16, page |-> 4, erase_unit |-> 4,
     erase_time |-> 0, write_time |-> 7]

CatalogKeys == << 4369, 8738, 13107, 17476, 21845, 26214, 30583, 34952 >>

Loader(has_keys, flash_cs, eeprom_verify) ==
    [present |-> TRUE, has_keys |-> has_keys,
     prog_keys |-> IF has_keys THEN CatalogKeys ELSE <<>>,
     flash_cs_programming_session |-> flash_cs,
     eeprom_verification_session |-> eeprom_verify]

NoLoader ==
    [present |-> FALSE, has_keys |-> FALSE, prog_keys |-> <<>>,
     flash_cs_programming_session |-> FALSE, eeprom_verification_session |-> FALSE]

\* the chips of the catalog by project id
Catalog ==
    [id \in {19762, 19763, 19764, 19765} |->
        [flash |-> CatalogFlash, flash_cs |-> CatalogFlashCs,
         nv_memory |-> CatalogNvMemory,
         ppm_loader |-> CASE id = 19762 -> Loader(TRUE, TRUE, TRUE)
                          [] id = 19763 -> Loader(FALSE, TRUE, FALSE)
                          [] id = 19764 -> Loader(TRUE, FALSE, TRUE)
                          [] id = 19765 -> NoLoader]]

\* mlxchip_getCamcuChip: the descriptor of a project id, 0 (NULL) if the
\* catalog has none
mlxchip_getCamcuChip(project_id) ==
    IF project_id \in DOMAIN Catalog THEN project_id ELSE 0

\* a HEX container: the bytes it holds by address
Hex(addresses) == [is_null |-> FALSE, data |-> [a \in addresses |-> (a * 7 + 3) % 256]]

NullHex == [is_null |-> TRUE, data |-> << >>]

Images ==
    { NullHex, Hex(0..11), Hex(4..5), Hex(64..69), Hex((128..131) \cup (140..143)),
      Hex(133..137), Hex(200..201), Hex((4..5) \cup (200..201)) }

Min(S) == CHOOSE x \in S : \A y \in S : x <= y
Max(S) == CHOOSE x \in S : \A y \in S : x >= y

intelhex_minAddress(ihex) == Min(DOMAIN ihex.data)
intelhex_maxAddress(ihex) == Max(DOMAIN ihex.data)
intelhex_countBytesInRange(ihex, addr, len) ==
    Cardinality({ a \in DOMAIN ihex.data : addr <= a /\ a < addr + len })
intelhex_getFilled(ihex, addr, len) ==
    [i \in 1..len |-> IF (addr + i - 1) \in DOMAIN ihex.data
                      THEN ihex.data[addr + i - 1] ELSE 255]

(***************************************************************************)
(* The bootloader orchestrator (ppm_bootloader part of rmt_ppm.c)          *)
(***************************************************************************)
\* (uint16_t)(x * 1.25) and (uint16_t)(x * 0.0000625): the conversion truncates
Times125(x) == W16((x * 5) \div 4)
Times625e7(x) == W16(x \div 16000)

Step(op, arg) == [op |-> op, arg |-> arg]

\* lines 1088-1097: the invocation ends; power is switched off unless the
\* user cycles it
doAction_return(a, l, o, rv) ==
    /\ pc' = "returned"
    /\ retval' = [result |-> rv, written |-> FALSE, value |-> 0]
    /\ loc' = l
    /\ obs' = IF a.manpow THEN o
              ELSE [o EXCEPT !.steps = Append(@, Step("ppmbtl_chipPower", 0))]
    /\ sess' = [sess EXCEPT !.state = "none"]

\* a session entry point is entered from the orchestrator
doAction_session(entry, l, o, s) ==
    /\ pc' = entry
    /\ loc' = l
    /\ obs' = o
    /\ sess' = s
    /\ UNCHANGED retval

\* ppmbtl_exitProgrammingMode (lines 705-718) as called at line 1088
doAction_exit(a, l, o, rv) ==
    IF l.chip_info # 0
    THEN doAction_session("ppmsession_doChipReset", [l EXCEPT !.retval = rv], o,
             ppmsession_doChipReset_call(
                 [PPM_SESSION_CHIP_RESET_DEFAULT EXCEPT !.request_ack = ~a.broadcast]))
    ELSE doAction_return(a, l, o, rv)

\* the HEX image has no byte in [memStart, memEnd]
MissingData(ihex, memStart, memEnd) ==
    intelhex_minAddress(ihex) > memEnd \/ intelhex_maxAddress(ihex) < memStart

\* ppmbtl_checkAndDoProgKeysSession (lines 1005-1020) entered
doAction_progKeys(a, l, o) ==
    LET loader == Catalog[l.chip_info].ppm_loader
    IN  IF loader.present /\ loader.has_keys
        THEN doAction_session("ppmsession_doFlashProgKeys", l, o,
                 ppmsession_doFlashProgKeys_call(
                     [PPM_SESSION_PROG_KEYS_DEFAULT EXCEPT !.request_ack = ~a.broadcast],
                     loader.prog_keys, Len(loader.prog_keys)))
        ELSE doAction_exit(a, l, o, PPM_FAIL_UNKNOWN)

\* ppmbtl_programFlashMemory, lines 727-749: after the prog keys session
programFlashMemory_session(a, l, o) ==
    LET mem == Catalog[l.chip_info].flash
        memStart == mem.start
        memEnd == mem.start + mem.length - 1
        memLen == mem.length
        pageX == Times125(mem.write_time)
        cfg == [PPM_SESSION_FLASH_PROG_AMALTHEA_DEFAULT EXCEPT
                   !.request_ack = ~a.broadcast,
                   !.page_size = W8(mem.page \div 2),
                   !.page0_ack_timeout =
                       Times125((memLen \div mem.erase_unit) * mem.erase_time),
                   !.pageX_ack_timeout = pageX,
                   !.session_ack_timeout = W16(pageX + Times625e7(memLen))]
    IN  IF MissingData(a.ihex, memStart, memEnd)
        THEN doAction_exit(a, l, o, PPM_FAIL_MISSING_DATA)
        ELSE doAction_session("ppmsession_doFlashProgramming", l, o,
                 ppmsession_doFlashProgramming_call(
                     cfg, intelhex_getFilled(a.ihex, memStart, memLen), memLen))

\* flash-CS: bytes to program or verify (lines 809-817, 854-862)
flashCs_memLen(ihex, mem, limit) ==
    LET memLen == intelhex_maxAddress(ihex) - mem.start + 1
        clamped == IF memLen > limit THEN limit ELSE memLen
    IN  IF clamped % mem.page # 0
        THEN clamped - (clamped % mem.page) + mem.page ELSE clamped

\* ppmbtl_programFlashCsMemory, lines 802-833: after the prog keys session
programFlashCsMemory_session(a, l, o) ==
    LET mem == Catalog[l.chip_info].flash_cs
        memStart == mem.start
        memEnd == mem.start + mem.writeable - 1
        memLen == flashCs_memLen(a.ihex, mem, mem.writeable)
        pageX == Times125(mem.write_time)
        cfg == [PPM_SESSION_FLASH_CS_PROG_DEFAULT EXCEPT
                   !.request_ack = ~a.broadcast,
                   !.page_size = W8(mem.page \div 2),
                   !.page0_ack_timeout = Times125((memLen \div mem.page) * mem.erase_time),
                   !.pageX_ack_timeout = pageX,
                   !.session_ack_timeout = W16(pageX + Times625e7(memLen))]
    IN  IF MissingData(a.ihex, memStart, memEnd)
        THEN doAction_exit(a, l, o, PPM_FAIL_MISSING_DATA)
        ELSE doAction_session("ppmsession_doFlashCsProgramming", l, o,
                 ppmsession_doFlashCsProgramming_call(
                     cfg, intelhex_getFilled(a.ihex, memStart, memLen), memLen))

\* the inner scan loop (lines 908-922, 971-985): pages are collected from
\* currAddr on until a page without HEX bytes, or the end, is met
RECURSIVE eeprom_run(_, _, _, _, _)
eeprom_run(ihex, page, memEnd, currAddr, content) ==
    IF currAddr < memEnd
    THEN IF intelhex_countBytesInRange(ihex, currAddr, page) # 0
         THEN eeprom_run(ihex, page, memEnd, currAddr + page,
                         content \o intelhex_getFilled(ihex, currAddr, page))
         ELSE [currAddr |-> currAddr + page, content |-> content]
    ELSE [currAddr |-> currAddr, content |-> content]

\* the outer scan loop (lines 904-907, 923, 967-970, 986) up to the next run
\* that has bytes: where it starts, its bytes, and where the scan goes on
RECURSIVE eeprom_scan(_, _, _, _, _)
eeprom_scan(ihex, page, memStart, memEnd, currAddr) ==
    IF currAddr < memEnd
    THEN LET run == eeprom_run(ihex, page, memEnd, currAddr, << >>)
         IN  IF Len(run.content) > 0
             THEN [found |-> TRUE, currOff |-> W16(currAddr - memStart),
                   currLen |-> W16(Len(run.content)), content |-> run.content,
                   currAddr |-> run.currAddr]
             ELSE eeprom_scan(ihex, page, memStart, memEnd, run.currAddr)
    ELSE [found |-> FALSE, currOff |-> 0, currLen |-> 0, content |-> << >>,
          currAddr |-> currAddr]

\* ppmbtl_programEepromMemory, lines 904-940: the scan goes on at l.currAddr
programEepromMemory_scan(a, l, o) ==
    LET mem == Catalog[l.chip_info].nv_memory
        memEnd == mem.start + mem.writeable - 1
        run == eeprom_scan(a.ihex, mem.page, mem.start, memEnd, l.currAddr)
        cfg == [PPM_SESSION_EEPROM_PROG_DEFAULT EXCEPT
                   !.request_ack = ~a.broadcast,
                   !.page_size = W8(mem.page \div 2),
                   !.page0_ack_timeout = Times125(mem.write_time),
                   !.pageX_ack_timeout = Times125(mem.write_time),
                   !.session_ack_timeout = Times125(mem.write_time)]
    IN  IF run.found
        THEN doAction_session("ppmsession_doEepromProgramming",
                 [l EXCEPT !.currAddr = run.currAddr], o,
                 ppmsession_doEepromProgramming_call(cfg, run.currOff, run.content,
                                                     run.currLen))
        ELSE doAction_exit(a, [l EXCEPT !.currAddr = run.currAddr], o, PPM_OK)

\* ppmbtl_programEepromMemory, lines 892-903: after the prog keys session
programEepromMemory_session(a, l, o) ==
    LET mem == Catalog[l.chip_info].nv_memory
    IN  IF MissingData(a.ihex, mem.start, mem.start + mem.writeable - 1)
        THEN doAction_exit(a, l, o, PPM_FAIL_MISSING_DATA)
        ELSE programEepromMemory_scan(a, [l EXCEPT !.currAddr = mem.start], o)

\* ppmbtl_verifyFlashMemory (lines 758-793) up to the CRC session
verifyFlashMemory_session(a, l, o) ==
    LET mem == Catalog[l.chip_info].flash
        memLen == mem.length
        content == intelhex_getFilled(a.ihex, mem.start, memLen)
        hex_crc == crc_calc24bitCrc(BytesAsWords(content), memLen \div 2, 1)
        cfg == [PPM_SESSION_FLASH_CRC_DEFAULT EXCEPT
                   !.page_size = W8(mem.page \div 2),
                   !.session_ack_timeout = Times625e7(memLen)]
    IN  IF memLen <= 4 \/ MissingData(a.ihex, mem.start, mem.start + mem.length - 1)
        THEN doAction_exit(a, l, o, PPM_FAIL_MISSING_DATA)
        ELSE doAction_session("ppmsession_doFlashCrc", [l EXCEPT !.hex_crc = hex_crc], o,
                 ppmsession_doFlashCrc_call(cfg, memLen))

\* ppmbtl_verifyFlashCsMemory (lines 842-883) up to the CRC session
verifyFlashCsMemory_session(a, l, o) ==
    LET mem == Catalog[l.chip_info].flash_cs
        memLen == flashCs_memLen(a.ihex, mem, mem.length)
        content == intelhex_getFilled(a.ihex, mem.start, memLen)
        hex_crc == crc_calc16bitCrc(content, memLen, 7439)
        cfg == [PPM_SESSION_FLASH_CS_CRC_DEFAULT EXCEPT !.page_size = W8(mem.page \div 2)]
    IN  IF MissingData(a.ihex, mem.start, mem.start + mem.length - 1)
        THEN doAction_exit(a, l, o, PPM_FAIL_MISSING_DATA)
        ELSE doAction_session("ppmsession_doFlashCsCrc", [l EXCEPT !.hex_crc = hex_crc], o,
                 ppmsession_doFlashCsCrc_call(cfg, memLen))

\* ppmbtl_verifyEepromMemory, lines 967-997: the scan goes on at l.currAddr
verifyEepromMemory_scan(a, l, o) ==
    LET mem == Catalog[l.chip_info].nv_memory
        memEnd == mem.start + mem.length - 1
        run == eeprom_scan(a.ihex, mem.page, mem.start, memEnd, l.currAddr)
        hex_crc == crc_calc16bitCrc(run.content, run.currLen, 7439)
        cfg == [PPM_SESSION_EEPROM_CRC_DEFAULT EXCEPT !.page_size = W8(mem.page \div 2)]
    IN  IF run.found
        THEN doAction_session("ppmsession_doEepromCrc",
                 [l EXCEPT !.currAddr = run.currAddr, !.hex_crc = hex_crc], o,
                 ppmsession_doEepromCrc_call(cfg, run.currOff, run.currLen))
        ELSE doAction_exit(a, [l EXCEPT !.currAddr = run.currAddr], o, PPM_OK)

\* ppmbtl_verifyEepromMemory (lines 949-966) entered
verifyEepromMemory_session(a, l, o) ==
    LET mem == Catalog[l.chip_info].nv_memory
    IN  IF MissingData(a.ihex, mem.start, mem.start + mem.length - 1)
        THEN doAction_exit(a, l, o, PPM_FAIL_MISSING_DATA)
        ELSE verifyEepromMemory_scan(a, [l EXCEPT !.currAddr = mem.start], o)

\* ppmbtl_doAction, lines 1058-1086: the routine of the memory and action
doAction_dispatch(a, l, o) ==
    LET loader == Catalog[l.chip_info].ppm_loader
        memory == a.memory
        action == a.action
    IN  CASE memory = "PPM_MEM_FLASH" /\ action = "PPM_ACT_PROGRAM" ->
                doAction_progKeys(a, l, o)
          [] memory = "PPM_MEM_FLASH" /\ action = "PPM_ACT_VERIFY" ->
                verifyFlashMemory_session(a, l, o)
          [] memory = "PPM_MEM_FLASH_CS" /\ ~loader.flash_cs_programming_session ->
                doAction_exit(a, l, o, PPM_FAIL_ACTION_NOT_SUPPORTED)
          [] memory = "PPM_MEM_FLASH_CS" /\ loader.flash_cs_programming_session
                /\ action = "PPM_ACT_PROGRAM" ->
                doAction_progKeys(a, l, o)
          [] memory = "PPM_MEM_FLASH_CS" /\ loader.flash_cs_programming_session
                /\ action = "PPM_ACT_VERIFY" ->
                verifyFlashCsMemory_session(a, l, o)
          [] memory = "PPM_MEM_NVRAM" /\ action = "PPM_ACT_PROGRAM" ->
                doAction_progKeys(a, l, o)
          [] memory = "PPM_MEM_NVRAM" /\ action = "PPM_ACT_VERIFY"
                /\ loader.eeprom_verification_session ->
                verifyEepromMemory_session(a, l, o)
          [] memory = "PPM_MEM_NVRAM" /\ action = "PPM_ACT_VERIFY"
                /\ ~loader.eeprom_verification_session ->
                doAction_exit(a, l, o, PPM_FAIL_ACTION_NOT_SUPPORTED)

\* variant: the power is switched off also when there is no HEX container
doAction_invalidHex_powers_down(manpow) ==
    /\ pc' = "returned"
    /\ retval' = [result |-> PPM_FAIL_INV_HEX_FILE, written |-> FALSE, value |-> 0]
    /\ obs' = IF manpow THEN obs
              ELSE [obs EXCEPT !.steps = Append(@, Step("ppmbtl_chipPower", 0))]
    /\ UNCHANGED << loc, sess, bus >>

\* ppmbtl_doAction, lines 1046 and 1093-1097: without HEX container nothing
\* is done
doAction_invalidHex(manpow) ==
    /\ pc' = "returned"
    /\ retval' = [result |-> PPM_FAIL_INV_HEX_FILE, written |-> FALSE, value |-> 0]
    /\ UNCHANGED << loc, obs, sess, bus >>

\* rmt_ppm_set_bitrate: a bitrate of 0 is refused
rmt_ppm_set_bitrate(bitrate) == IF bitrate = 0 THEN "ESP_ERR_INVALID_ARG" ELSE "ESP_OK"

Bitrates == {0, 296296}

\* ppmbtl_doAction is called (lines 1044-1056) and runs
\* ppmbtl_enterProgrammingMode up to the Unlock session (lines 662-687)
ppmbtl_doAction ==
    /\ pc = "idle"
    /\ \E manpow \in BOOLEAN, broadcast \in BOOLEAN, bitrate \in Bitrates,
          memory \in {"PPM_MEM_FLASH", "PPM_MEM_FLASH_CS", "PPM_MEM_NVRAM"},
          action \in {"PPM_ACT_PROGRAM", "PPM_ACT_VERIFY"}, ihex \in Images,
          chip \in ProjectIds :
       \E pid \in (IF broadcast THEN {InitBus.pid} ELSE {chip}),
          powered \in (IF manpow THEN {FALSE} ELSE BOOLEAN),
          pattern_ok \in BOOLEAN, calibration_ok \in BOOLEAN :
          LET pattern_time == IF manpow THEN 100000 ELSE 50000
              power == IF (~manpow) /\ powered
                       THEN << Step("ppmbtl_chipPower", 0), Step("vTaskDelay", 100) >>
                       ELSE << >>
              pattern == << Step("rmt_ppm_send_enter_ppm_pattern", pattern_time) >>
              baud_ok == rmt_ppm_set_bitrate(bitrate) = "ESP_OK"
              result == IF ~pattern_ok THEN PPM_FAIL_BTL_ENTER_PPM_MODE
                        ELSE IF ~baud_ok THEN PPM_FAIL_SET_BAUD
                        ELSE IF ~calibration_ok THEN PPM_FAIL_CALIBRATION
                        ELSE PPM_OK
              steps == power \o pattern \o << Step("vTaskDelay", 5) >>
                       \o (IF pattern_ok
                           THEN << Step("rmt_ppm_set_bitrate", bitrate) >> ELSE << >>)
                       \o (IF pattern_ok /\ baud_ok
                           THEN << Step("rmt_ppm_send_calibration_frame", 0) >>
                           ELSE << >>)
              o == [NoObs EXCEPT !.steps = steps,
                                 !.tx_failed = (~pattern_ok)
                                               \/ (baud_ok /\ ~calibration_ok)]
          IN  /\ args' = [entry |-> "ppmbtl_doAction", manpow |-> manpow,
                          broadcast |-> broadcast, bitrate |-> bitrate,
                          memory |-> memory, action |-> action, ihex |-> ihex]
              /\ IF ihex.is_null
                 THEN doAction_invalidHex(manpow)
                 ELSE /\ bus' = [bus EXCEPT !.pid = pid]
                      /\ IF result = PPM_OK
                         THEN doAction_session("ppmsession_doUnlock", NoLoc, o,
                                  ppmsession_doUnlock_call(
                                      [PPM_SESSION_UNLOCK_DEFAULT EXCEPT
                                          !.request_ack = ~broadcast]))
                         ELSE doAction_exit(args', NoLoc, o, result)
    /\ UNCHANGED << rx_queue, last_tx >>

\* ppmbtl_enterProgrammingMode, lines 687-702, then the dispatch of
\* ppmbtl_doAction (lines 1058-1086) up to the first session of the routine
ppmbtl_enterProgrammingMode ==
    /\ pc = "ppmsession_doUnlock"
    /\ sess.state = "done"
    /\ LET unlock == ppmsession_doUnlock_ret(sess)
       IN  IF unlock.result # "ESP_OK"
           THEN doAction_exit(args, loc, obs, PPM_FAIL_UNLOCK)
           ELSE \E project_id \in (IF unlock.written THEN {unlock.value} ELSE ProjectIds) :
                   LET chip_info == mlxchip_getCamcuChip(project_id)
                       l == [loc EXCEPT !.chip_info = chip_info,
                                        !.project_id = project_id]
                   IN  IF chip_info = 0
                       THEN doAction_exit(args, l, obs, PPM_OK)
                       ELSE IF ~Catalog[chip_info].ppm_loader.present
                       THEN doAction_exit(args, l, obs, PPM_FAIL_CHIP_NOT_SUPPORTED)
                       ELSE doAction_dispatch(args, l, obs)
    /\ UNCHANGED << args, rx_queue, bus, last_tx >>

\* ppmbtl_checkAndDoProgKeysSession, lines 1012-1019, then the programming
\* routine that called it up to its session
ppmbtl_checkAndDoProgKeysSession ==
    /\ pc = "ppmsession_doFlashProgKeys"
    /\ sess.state = "done"
    /\ IF ppmsession_doFlashProgKeys_ret(sess).result # "ESP_OK"
       THEN doAction_exit(args, loc, obs, PPM_FAIL_UNKNOWN)
       ELSE CASE args.memory = "PPM_MEM_FLASH" -> programFlashMemory_session(args, loc, obs)
              [] args.memory = "PPM_MEM_FLASH_CS" -> programFlashCsMemory_session(args, loc, obs)
              [] args.memory = "PPM_MEM_NVRAM" -> programEepromMemory_session(args, loc, obs)
    /\ UNCHANGED << args, rx_queue, bus, last_tx >>

\* ppmbtl_programFlashMemory, lines 747-755
ppmbtl_programFlashMemory ==
    /\ pc = "ppmsession_doFlashProgramming"
    /\ sess.state = "done"
    /\ doAction_exit(args, loc, obs,
           IF ppmsession_doFlashProgramming_ret(sess).result # "ESP_OK"
           THEN PPM_FAIL_PROGRAMMING_FAILED ELSE PPM_OK)
    /\ UNCHANGED << args, rx_queue, bus, last_tx >>

\* ppmbtl_programFlashCsMemory, lines 831-839
ppmbtl_programFlashCsMemory ==
    /\ pc = "ppmsession_doFlashCsProgramming"
    /\ sess.state = "done"
    /\ doAction_exit(args, loc, obs,
           IF ppmsession_doFlashCsProgramming_ret(sess).result # "ESP_OK"
           THEN PPM_FAIL_PROGRAMMING_FAILED ELSE PPM_OK)
    /\ UNCHANGED << args, rx_queue, bus, last_tx >>

\* ppmbtl_programEepromMemory, lines 933-946: a run's session is over
ppmbtl_programEepromMemory ==
    /\ pc = "ppmsession_doEepromProgramming"
    /\ sess.state = "done"
    /\ IF ppmsession_doEepromProgramming_ret(sess).result # "ESP_OK"
       THEN doAction_exit(args, loc, obs, PPM_FAIL_PROGRAMMING_FAILED)
       ELSE programEepromMemory_scan(args, loc, obs)
    /\ UNCHANGED << args, rx_queue, bus, last_tx >>

\* the observer's note of the CRC a CRC session returned
CrcObs(o, crc) ==
    IF crc.written THEN [o EXCEPT !.chip_crc = Append(@, crc.value)] ELSE o

\* ppmbtl_verifyFlashMemory, lines 783-792
ppmbtl_verifyFlashMemory ==
    /\ pc = "ppmsession_doFlashCrc"
    /\ sess.state = "done"
    /\ LET crc == ppmsession_doFlashCrc_ret(sess)
       IN  doAction_exit(args, loc, CrcObs(obs, crc),
               IF crc.result # "ESP_OK" THEN PPM_FAIL_VERIFY_FAILED
               ELSE IF ~crc.written THEN PPM_FAIL_VERIFY_FAILED
               ELSE IF crc.value # loc.hex_crc THEN PPM_FAIL_VERIFY_FAILED ELSE PPM_OK)
    /\ UNCHANGED << args, rx_queue, bus, last_tx >>

\* ppmbtl_verifyFlashCsMemory, lines 873-882
ppmbtl_verifyFlashCsMemory ==
    /\ pc = "ppmsession_doFlashCsCrc"
    /\ sess.state = "done"
    /\ LET crc == ppmsession_doFlashCsCrc_ret(sess)
       IN  doAction_exit(args, loc, CrcObs(obs, crc),
               IF crc.result # "ESP_OK" THEN PPM_FAIL_VERIFY_FAILED
               ELSE IF ~crc.written THEN PPM_FAIL_VERIFY_FAILED
               ELSE IF crc.value # loc.hex_crc THEN PPM_FAIL_VERIFY_FAILED ELSE PPM_OK)
    /\ UNCHANGED << args, rx_queue, bus, last_tx >>

\* ppmbtl_verifyEepromMemory, lines 992-1002: a run's session is over
ppmbtl_verifyEepromMemory ==
    /\ pc = "ppmsession_doEepromCrc"
    /\ sess.state = "done"
    /\ LET crc == ppmsession_doEepromCrc_ret(sess)
       IN  IF crc.result # "ESP_OK" \/ ~crc.written \/ crc.value # loc.hex_crc
           THEN doAction_exit(args, loc, CrcObs(obs, crc), PPM_FAIL_VERIFY_FAILED)
           ELSE verifyEepromMemory_scan(args, loc, CrcObs(obs, crc))
    /\ UNCHANGED << args, rx_queue, bus, last_tx >>

\* ppmbtl_exitProgrammingMode, lines 711-717, and the end of ppmbtl_doAction
ppmbtl_exitProgrammingMode ==
    /\ pc = "ppmsession_doChipReset"
    /\ sess.state = "done"
    /\ doAction_return(args, loc, obs, loc.retval)
    /\ UNCHANGED << args, rx_queue, bus, last_tx >>

Next ==
    \/ ppmbtl_doAction
    \/ ppmbtl_enterProgrammingMode
    \/ ppmbtl_checkAndDoProgKeysSession
    \/ ppmbtl_programFlashMemory
    \/ ppmbtl_programFlashCsMemory
    \/ ppmbtl_programEepromMemory
    \/ ppmbtl_verifyFlashMemory
    \/ ppmbtl_verifyFlashCsMemory
    \/ ppmbtl_verifyEepromMemory
    \/ ppmbtl_exitProgrammingMode
    \/ handle_session_start
    \/ handle_session_send_page
    \/ handle_session_page_ack
    \/ handle_session_session_ack
    \/ rx_done_cb
    \/ rmt_ppm_init

Spec == Init /\ [][Next]_vars

(***************************************************************************)
(* The session frame of handle_session alone: the page count for every     *)
(* page size of the descriptor and payload lengths up to the 16 bit limit  *)
(***************************************************************************)
\* payload lengths [words] handle_session is entered with
PayloadLengths ==
    {0, 1, 2, 3, 127, 128, 129, 254, 255, 256, 257, 4096, 32768, 65534, 65535}

\* handle_session is entered without page data, as the CRC sessions enter it
InitFrame ==
    /\ pc = "api"
    /\ \E page_size \in 0..255, page_data_len \in PayloadLengths, ack \in BOOLEAN :
          /\ args = [entry |-> "handle_session",
                     config |-> [PPM_SESSION_FLASH_CRC_DEFAULT EXCEPT
                                    !.page_size = page_size, !.request_ack = ack],
                     data |-> <<>>, mem_offset |-> 0]
          /\ sess = NewSession(args.config, 0, 0, FALSE, <<>>, page_data_len)
    /\ loc = NoLoc
    /\ retval = NoRet
    /\ rx_queue = <<>>
    /\ bus = InitBus
    /\ last_tx = NoFrame
    /\ obs = NoObs

NextFrame == handle_session_start

SpecFrame == InitFrame /\ [][NextFrame]_vars

(***************************************************************************)
(* The receive queue alone: receive completions of any frames (rx_done_cb) *)
(* against a foreground that takes them                                    *)
(* (rmt_ppm_wait_for_response_frame).  Every received frame carries the    *)
(* number of its receive completion as its only word.                      *)
(***************************************************************************)
\* the state after rmt_ppm_init; obs is what an observer of the receive
\* queue saw: the number of receive completions, those of them whose symbols
\* decoded to a frame, those of them that decoded while the queue was full,
\* and the frames handed to the foreground, in order
InitQueue ==
    /\ pc = "idle"
    /\ args = NoArgs
    /\ loc = NoLoc
    /\ retval = NoRet
    /\ sess = NoSession
    /\ rx_queue = << >>
    /\ bus = InitBus
    /\ last_tx = NoFrame
    /\ obs = [arrived |-> 0, decoded |-> {}, overflow |-> {}, taken |-> << >>]

\* rx_done_cb (lines 289-303): the symbols decode to a session or page frame,
\* which is queued or dropped, or they do not decode (ppm_decode_symbols
\* fails on the leading pulse) and nothing is queued
rx_done_cb_any ==
    /\ obs.arrived < MaxArrivals
    /\ \E type \in {"ftSession", "ftPage"}, decode_ok \in BOOLEAN :
          LET n    == obs.arrived + 1
              item == [type |-> type, data |-> << n >>]
          IN  IF decode_ok
              THEN /\ rx_queue' = xQueueSend(rx_queue, item)
                   /\ obs' = [obs EXCEPT
                                 !.arrived = n,
                                 !.decoded = @ \cup {n},
                                 !.overflow = IF Len(rx_queue) >= RX_QUEUE_LENGTH
                                              THEN @ \cup {n} ELSE @]
              ELSE /\ rx_queue' = rx_queue
                   /\ obs' = [obs EXCEPT !.arrived = n]
    /\ UNCHANGED << pc, args, loc, retval, sess, bus, last_tx >>

\* rmt_ppm_wait_for_response_frame (lines 509-528): xQueueReceive hands the
\* frame at the head of the queue over
rmt_ppm_wait_for_response_frame ==
    /\ rx_queue # << >>
    /\ rx_queue' = Tail(rx_queue)
    /\ obs' = [obs EXCEPT !.taken = Append(@, Head(rx_queue))]
    /\ UNCHANGED << pc, args, loc, retval, sess, bus, last_tx >>

NextQueue ==
    \/ rx_done_cb_any
    \/ rmt_ppm_wait_for_response_frame

SpecQueue == InitQueue /\ [][NextQueue]_vars

(***************************************************************************)
(* The half-duplex line: the transmit functions of the foreground          *)
(* (rmt_ppm_send_enter_ppm_pattern, rmt_ppm_send_calibration_frame and     *)
(* rmt_ppm_send_frame share their steps) against the completion handlers.  *)
(* The RMT channels (esp_driver_rmt, external) are modelled by their       *)
(* states: the receive channel is "init" (disabled), "enabled" or          *)
(* "receiving" (armed by rmt_receive), the transmit channel "idle" or      *)
(* "transmitting".  rx_buffer is the symbol buffer the receive channel got *)
(* with the last rmt_receive it accepted (2 before the first), retval the  *)
(* result of the last send function that returned.                         *)
(***************************************************************************)
\* rx_cfg.flags.en_partial_rx (lines 246, 269): the receive channel reports
\* whole receptions only, each of them with is_last
en_partial_rx == FALSE

\* the line after rmt_ppm_init: both channels enabled, nothing going on;
\* obs is what an observer saw: the last event on the line
InitLine ==
    /\ pc = "idle"
    /\ args = NoArgs
    /\ loc = NoLoc
    /\ retval = NoRet
    /\ sess = NoSession
    /\ rx_queue = << >>
    /\ bus = [tx_chan |-> "idle", rx_chan |-> "enabled", tx_done_sem |-> 0,
              rmt_symbols_buffer |-> 0, rx_buffer |-> 2]
    /\ last_tx = NoFrame
    /\ obs = [event |-> "none"]

\* variant: rmt_disable that lets a running reception go on
rmt_disable_keeps_receiving(chan) == chan

\* rmt_disable: a running reception is cancelled, the channel is disabled
rmt_disable(chan) == "init"

\* variant: rmt_receive that refuses every request
rmt_receive_refused(chan) == chan

\* rmt_receive: arms an enabled channel; ESP_ERR_INVALID_STATE (no change)
\* for a channel that is disabled or receiving
rmt_receive(chan) == IF chan = "enabled" THEN "receiving" ELSE chan

\* variant: the callbacks keep to one symbol buffer
rmt_symbols_buffer_next_same(b) == b

\* rmt_symbols_buffer ^= 1 (lines 249, 276)
rmt_symbols_buffer_next(b) == (b + 1) % 2

\* rmt_receive(rx_chan, rx_symbols[rmt_symbols_buffer], ...) (lines 250-253,
\* 277-280) after the index has changed: the channel takes the buffer if it
\* accepts the request
rmt_receive_buffer(b, chan) ==
    LET next == rmt_symbols_buffer_next(b.rmt_symbols_buffer)
    IN  [b EXCEPT !.rmt_symbols_buffer = next,
                  !.rx_chan = rmt_receive(chan),
                  !.rx_buffer = IF rmt_receive(chan) # chan THEN next ELSE @]

\* lines 410, 449, 478: (void)rmt_disable(rx_chan) on entry of a send function
rmt_ppm_send_disable_rx ==
    /\ pc = "idle"
    /\ pc' = "rmt_enable"
    /\ bus' = [bus EXCEPT !.rx_chan = rmt_disable(@)]
    /\ obs' = [event |-> "send"]
    /\ retval' = NoRet
    /\ UNCHANGED << args, loc, sess, rx_queue, last_tx >>

\* lines 411-415, 450-454, 479-483: rmt_enable(rx_chan); the send function
\* returns ESP_FAIL when the channel cannot be enabled
rmt_ppm_send_enable_rx ==
    /\ pc = "rmt_enable"
    /\ \E ok \in BOOLEAN :
          IF ok /\ bus.rx_chan = "init"
          THEN /\ bus' = [bus EXCEPT !.rx_chan = "enabled"]
               /\ pc' = "rmt_transmit"
               /\ retval' = retval
          ELSE /\ bus' = bus
               /\ pc' = "idle"
               /\ retval' = [NoRet EXCEPT !.result = "ESP_FAIL"]
    /\ obs' = [event |-> "send"]
    /\ UNCHANGED << args, loc, sess, rx_queue, last_tx >>

\* lines 430-434, 458-462, 495-499: rmt_transmit starts the transmission, or
\* fails and the send function returns ESP_FAIL
rmt_ppm_send_transmit ==
    /\ pc = "rmt_transmit"
    /\ \E ok \in BOOLEAN, type \in {"ftSession", "ftPage"} :
          IF ok /\ bus.tx_chan = "idle"
          THEN /\ bus' = [bus EXCEPT !.tx_chan = "transmitting"]
               /\ last_tx' = [type |-> type, data |-> << 0 >>]
               /\ pc' = "xSemaphoreTake"
               /\ retval' = retval
          ELSE /\ bus' = bus
               /\ last_tx' = last_tx
               /\ pc' = "idle"
               /\ retval' = [NoRet EXCEPT !.result = "ESP_FAIL"]
    /\ obs' = [event |-> "send"]
    /\ UNCHANGED << args, loc, sess, rx_queue >>

\* lines 439-443, 465-469, 502-506: the send function waits for tx_done_sem
\* and returns ESP_OK
rmt_ppm_send_wait ==
    /\ pc = "xSemaphoreTake"
    /\ bus.tx_done_sem = 1
    /\ bus' = [bus EXCEPT !.tx_done_sem = 0]
    /\ pc' = "idle"
    /\ obs' = [event |-> "send"]
    /\ retval' = [NoRet EXCEPT !.result = "ESP_OK"]
    /\ UNCHANGED << args, loc, sess, rx_queue, last_tx >>

\* tx_done_cb (lines 238-260): the transmission is over; the semaphore is
\* given and the receiver is armed
tx_done_cb ==
    /\ bus.tx_chan = "transmitting"
    /\ bus' = rmt_receive_buffer([bus EXCEPT !.tx_chan = "idle", !.tx_done_sem = 1],
                                 bus.rx_chan)
    /\ obs' = [event |-> "tx_done_cb"]
    /\ UNCHANGED << pc, args, loc, retval, sess, rx_queue, last_tx >>

\* rx_done_cb (lines 262-303): a reception is over; with is_last the
\* receiver is armed again; the symbols are decoded and the frame queued
rx_done_cb_line ==
    /\ bus.rx_chan = "receiving"
    /\ \E is_last \in (IF en_partial_rx THEN BOOLEAN ELSE {TRUE}),
          decode_ok \in BOOLEAN, type \in {"ftSession", "ftPage"} :
          /\ bus' = IF is_last THEN rmt_receive_buffer(bus, "enabled")
                    ELSE [bus EXCEPT !.rx_chan = "enabled"]
          /\ rx_queue' = IF decode_ok
                         THEN xQueueSend(rx_queue, [type |-> type, data |-> << 0 >>])
                         ELSE rx_queue
          /\ obs' = [event |-> IF is_last THEN "rx_done_cb is_last" ELSE "rx_done_cb"]
    /\ UNCHANGED << pc, args, loc, retval, sess, last_tx >>

NextLine ==
    \/ rmt_ppm_send_disable_rx
    \/ rmt_ppm_send_enable_rx
    \/ rmt_ppm_send_transmit
    \/ rmt_ppm_send_wait
    \/ tx_done_cb
    \/ rx_done_cb_line

SpecLine == InitLine /\ [][NextLine]_vars

(***************************************************************************)
(* The wire codec alone: a frame is encoded to symbols and the symbols     *)
(* are decoded (rmt_ppm.c, ppm_decode_symbols; the encoder is the          *)
(* component behind rmt_ppm_encoder.h)                                     *)
(***************************************************************************)
\* wire times [1/4 us]
PPM_BIT_DISTANCE == 6
PPM_PULSE_LOW_TIME == 6
PPM_SESSION_PULSE_TIME == 48
PPM_PAGE_PULSE_TIME == 54
\* (uint32_t)(4.5 * 4) and (uint32_t)(22.5 * 4): the symbol times decoded
SYMBOL_TIME_MIN == 18
SYMBOL_TIME_MAX == 90
\* sizeof(item->frame.data)
FRAME_DATA_SIZE == 258
SYMBOLS_PER_BYTE == 4

\* the encoder: the leading pulse of the frame type, four symbols per byte
\* with the most significant two bits first, each of total time
\* 18 + 6 * value, and a trailing low
ppm_encoder_lead(type) ==
    [duration0 |-> PPM_PULSE_LOW_TIME,
     duration1 |-> (IF type = "ftSession" THEN PPM_SESSION_PULSE_TIME
                                          ELSE PPM_PAGE_PULSE_TIME)
                       - PPM_PULSE_LOW_TIME]

ppm_encoder_symbol(byte, k) ==
    LET value == (byte \div (4 ^ (SYMBOLS_PER_BYTE - k))) % 4
    IN  [duration0 |-> PPM_PULSE_LOW_TIME,
         duration1 |-> SYMBOL_TIME_MIN + value * PPM_BIT_DISTANCE
                           - PPM_PULSE_LOW_TIME]

ppm_encoder(type, data) ==
    << ppm_encoder_lead(type) >>
        \o [n \in 1..(SYMBOLS_PER_BYTE * Len(data)) |->
               ppm_encoder_symbol(data[((n - 1) \div SYMBOLS_PER_BYTE) + 1],
                                  ((n - 1) % SYMBOLS_PER_BYTE) + 1)]
        \o << [duration0 |-> PPM_PULSE_LOW_TIME, duration1 |-> 0] >>

\* variant: the limits of the two bands belong to the bands
ppm_decode_type_inclusive(symbol) ==
    LET frame_pulse == symbol.duration0 + symbol.duration1
    IN  IF /\ frame_pulse >= PPM_SESSION_PULSE_TIME - (PPM_BIT_DISTANCE \div 2)
           /\ frame_pulse <= PPM_SESSION_PULSE_TIME + (PPM_BIT_DISTANCE \div 2)
        THEN "ftSession"
        ELSE IF /\ frame_pulse >= PPM_PAGE_PULSE_TIME - (PPM_BIT_DISTANCE \div 2)
                /\ frame_pulse <= PPM_PAGE_PULSE_TIME + (PPM_BIT_DISTANCE \div 2)
             THEN "ftPage"
             ELSE "none"

\* ppm_decode_symbols (lines 195-204): the frame type of the leading pulse,
\* "none" where the function returns ESP_FAIL
ppm_decode_type(symbol) ==
    LET frame_pulse == symbol.duration0 + symbol.duration1
    IN  IF /\ frame_pulse > PPM_SESSION_PULSE_TIME - (PPM_BIT_DISTANCE \div 2)
           /\ frame_pulse < PPM_SESSION_PULSE_TIME + (PPM_BIT_DISTANCE \div 2)
        THEN "ftSession"
        ELSE IF /\ frame_pulse > PPM_PAGE_PULSE_TIME - (PPM_BIT_DISTANCE \div 2)
                /\ frame_pulse < PPM_PAGE_PULSE_TIME + (PPM_BIT_DISTANCE \div 2)
             THEN "ftPage"
             ELSE "none"

\* ppm_decode_symbols (line 213): the two bits of a symbol time
ppm_decode_val_no_base(total_time) == W8(total_time \div PPM_BIT_DISTANCE)
ppm_decode_val(total_time) ==
    W8((total_time - SYMBOL_TIME_MIN) \div PPM_BIT_DISTANCE)

\* ppm_decode_symbols (lines 207-225): the body of the loop for symbols[i];
\* brk is set where the code leaves the loop
ppm_decode_step(st, symbol) ==
    LET total_time == symbol.duration0 + symbol.duration1
        byte       == W8(st.current_byte * 4) + (ppm_decode_val(total_time) % 4)
        bits       == st.bits_filled + 2
    IN  IF total_time < SYMBOL_TIME_MIN \/ total_time > SYMBOL_TIME_MAX
        THEN [st EXCEPT !.brk = TRUE]
        ELSE IF bits # 8
        THEN [st EXCEPT !.current_byte = byte, !.bits_filled = bits]
        ELSE IF st.byte_idx >= FRAME_DATA_SIZE
        THEN [st EXCEPT !.current_byte = byte, !.bits_filled = bits, !.brk = TRUE]
        ELSE [st EXCEPT !.data = Append(@, byte), !.byte_idx = @ + 1,
                        !.current_byte = 0, !.bits_filled = 0]

\* ppm_decode_symbols (lines 228-235): the partial last byte is stored and
\* the frame returned
ppm_decode_result(st) ==
    LET data == IF st.bits_filled > 0 /\ st.byte_idx < FRAME_DATA_SIZE
                THEN Append(st.data, W8(st.current_byte * (2 ^ (8 - st.bits_filled))))
                ELSE st.data
    IN  [err |-> "ESP_OK", type |-> st.type, data |-> data, data_len |-> Len(data)]

\* byte buffers handed to the encoder: every short buffer over a few bytes
\* that use all four symbol values, and patterned buffers around the size of
\* the frame buffer
CodecBuffers ==
    LET bytes == {0, 27, 128, 228, 255}
    IN  { << >> }
          \cup { << a >> : a \in bytes }
          \cup { << a, b >> : a \in bytes, b \in bytes }
          \cup { [n \in 1..len |-> (n * mul + 27) % 256] :
                   len \in { n \in 3..MaxFrameBytes : n <= 5 \/ n >= MaxFrameBytes - 2 },
                   mul \in {0, 1, 7} }

InitCodec ==
    /\ pc = "idle"
    /\ \E type \in {"ftSession", "ftPage"}, data \in CodecBuffers :
          args = [type |-> type, data |-> data]
    /\ loc = NoLoc
    /\ retval = NoRet
    /\ sess = NoSession
    /\ rx_queue = << >>
    /\ bus = [symbols |-> << >>]
    /\ last_tx = NoFrame
    /\ obs = NoObs

\* rmt_transmit (rmt_ppm_send_frame, line 495): the encoder turns the item
\* into the symbols on the line
rmt_transmit_frame ==
    /\ pc = "idle"
    /\ pc' = "on_line"
    /\ bus' = [symbols |-> ppm_encoder(args.type, args.data)]
    /\ UNCHANGED << args, loc, retval, sess, rx_queue, last_tx, obs >>

\* ppm_decode_symbols (lines 188-204) entered with all the symbols of the
\* frame (rx_done_cb, line 295, hands it the symbols of one reception): the
\* leading pulse gives the frame type or the function returns ESP_FAIL
ppm_decode_symbols_enter ==
    /\ pc = "on_line"
    /\ LET type == ppm_decode_type(bus.symbols[1])
       IN  IF type = "none"
           THEN /\ pc' = "decoded"
                /\ retval' = [err |-> "ESP_FAIL", type |-> "none", data |-> << >>,
                              data_len |-> 0]
                /\ loc' = loc
           ELSE /\ pc' = "ppm_decode_symbols"
                /\ retval' = retval
                /\ loc' = [i |-> 1, symbol_count |-> Len(bus.symbols), type |-> type,
                           byte_idx |-> 0, current_byte |-> 0, bits_filled |-> 0,
                           data |-> << >>, brk |-> FALSE]
    /\ UNCHANGED << args, sess, rx_queue, bus, last_tx, obs >>

\* ppm_decode_symbols (line 206): for (i = 1; i < symbol_count - 1; i++),
\* one pass; symbols[i] of the code is the element i + 1 of the sequence
ppm_decode_symbols_loop ==
    /\ pc = "ppm_decode_symbols"
    /\ ~loc.brk
    /\ loc.i < loc.symbol_count - 1
    /\ loc' = [ppm_decode_step(loc, bus.symbols[loc.i + 1]) EXCEPT
                  !.i = IF ppm_decode_step(loc, bus.symbols[loc.i + 1]).brk
                        THEN @ ELSE @ + 1]
    /\ UNCHANGED << pc, args, retval, sess, rx_queue, bus, last_tx, obs >>

\* ppm_decode_symbols (lines 228-235): the loop is left
ppm_decode_symbols_return ==
    /\ pc = "ppm_decode_symbols"
    /\ loc.brk \/ ~(loc.i < loc.symbol_count - 1)
    /\ pc' = "decoded"
    /\ retval' = ppm_decode_result(loc)
    /\ UNCHANGED << args, loc, sess, rx_queue, bus, last_tx, obs >>

NextCodec ==
    \/ rmt_transmit_frame
    \/ ppm_decode_symbols_enter
    \/ ppm_decode_symbols_loop
    \/ ppm_decode_symbols_return

SpecCodec == InitCodec /\ [][NextCodec]_vars

(***************************************************************************)
(* Reception of a frame the line has disturbed: rx_done_cb with            *)
(* ppm_decode_symbols (rmt_ppm.c)                                          *)
(***************************************************************************)
max_rx_data_len == 10

\* a frame of the chip and what the line does to it: the symbol at position
\* at (1 is the leading pulse, 0 is no symbol) arrives with the total time
\* time
InitReceive ==
    /\ pc = "idle"
    /\ \E type \in {"ftSession", "ftPage"},
          data \in { << >>, << 27 >>, << 228, 27 >> },
          at \in 0..(SYMBOLS_PER_BYTE + 2),
          time \in {12, 17, 18, 45, 46, 50, 51, 52, 56, 57, 60, 90, 91, 96} :
          /\ at <= SYMBOLS_PER_BYTE * Len(data) + 1
          /\ args = [type |-> type, data |-> data, at |-> at, time |-> time]
    /\ loc = NoLoc
    /\ retval = NoRet
    /\ sess = NoSession
    /\ rx_queue = << >>
    /\ bus = [symbols |-> << >>]
    /\ last_tx = NoFrame
    /\ obs = NoObs

\* rx_done_cb (lines 289-292) is called with the symbols received, at most
\* max_rx_symbols of them
rx_done_cb_symbols ==
    /\ pc = "idle"
    /\ pc' = "on_line"
    /\ LET sent     == ppm_encoder(args.type, args.data)
           received == [n \in 1..Len(sent) |->
                          IF n = args.at
                          THEN [sent[n] EXCEPT !.duration1 = args.time - sent[n].duration0]
                          ELSE sent[n]]
           num_symbols == IF Len(received) > max_rx_data_len * SYMBOLS_PER_BYTE
                          THEN max_rx_data_len * SYMBOLS_PER_BYTE
                          ELSE Len(received)
       IN  bus' = [symbols |-> SubSeq(received, 1, num_symbols)]
    /\ UNCHANGED << args, loc, retval, sess, rx_queue, last_tx, obs >>

\* rx_done_cb (lines 294-301): the frame is queued if the decoder returned
\* ESP_OK
rx_done_cb_send ==
    /\ pc = "decoded"
    /\ pc' = "received"
    /\ rx_queue' = IF retval.err = "ESP_OK"
                   THEN xQueueSend(rx_queue, [type |-> retval.type,
                                              data |-> retval.data])
                   ELSE rx_queue
    /\ UNCHANGED << args, loc, retval, sess, bus, last_tx, obs >>

NextReceive ==
    \/ rx_done_cb_symbols
    \/ ppm_decode_symbols_enter
    \/ ppm_decode_symbols_loop
    \/ ppm_decode_symbols_return
    \/ rx_done_cb_send

SpecReceive == InitReceive /\ [][NextReceive]_vars

(***************************************************************************)
(* The line timing alone: rmt_ppm_set_bitrate (rmt_ppm.c).  The numbers of *)
(* its 32 and 64 bit unsigned arithmetic are records [hi, lo] of value     *)
(* hi * 2^16 + lo with lo < 2^16.                                          *)
(***************************************************************************)
UNorm(hi, lo) == [hi |-> hi + (lo \div 65536), lo |-> lo % 65536]
UInt(n) == UNorm(0, n)
ULess(a, b) == a.hi < b.hi \/ (a.hi = b.hi /\ a.lo < b.lo)
\* a - b for a >= b
USub(a, b) ==
    IF a.lo >= b.lo THEN [hi |-> a.hi - b.hi, lo |-> a.lo - b.lo]
                    ELSE [hi |-> a.hi - b.hi - 1, lo |-> a.lo + 65536 - b.lo]
UBit(a, k) == IF k < 16 THEN (a.lo \div (2 ^ k)) % 2 ELSE (a.hi \div (2 ^ (k - 16))) % 2
\* the value stored to a uint32_t
U32(a) == [hi |-> a.hi % 65536, lo |-> a.lo]

\* unsigned division n / d, d # 0, bit by bit from bit st.k down: the
\* quotient q and the remainder r
RECURSIVE UDivMod(_, _, _)
UDivMod(n, d, st) ==
    IF st.k < 0 THEN st
    ELSE LET r1 == UNorm(2 * st.r.hi, 2 * st.r.lo + UBit(n, st.k))
             ge == ~ULess(r1, d)
         IN  UDivMod(n, d, [k |-> st.k - 1,
                            q |-> UNorm(2 * st.q.hi, 2 * st.q.lo + (IF ge THEN 1 ELSE 0)),
                            r |-> IF ge THEN USub(r1, d) ELSE r1])
UDiv(n, d) == UDivMod(n, d, [k |-> 46, q |-> UInt(0), r |-> UInt(0)]).q

\* line 400: bitrate / 2u * 27u in 32 bits
set_bitrate_resolution_hz(bitrate) ==
    LET half == UDiv(bitrate, UInt(2))
    IN  U32(UNorm(half.hi * 27, half.lo * 27))

\* line 401: 8000000000u / 27u is 296296296 (64 bits), divided by the bitrate
set_bitrate_rx_min(bitrate) == U32(UDiv(UInt(296296296), bitrate))

\* line 402: 20000000000u / 3u is 6666666666 = 101725 * 2^16 + 17066
\* (64 bits), divided by the bitrate and stored in 32 bits
set_bitrate_rx_max_by_27(bitrate) == U32(UDiv(UInt(740740740), bitrate))
set_bitrate_rx_max(bitrate) == U32(UDiv([hi |-> 101725, lo |-> 17066], bitrate))

\* the bitrates set: the small ones, the default one and its neighbours,
\* those around the numerators of the divisions and the largest 32 bit ones
TimingBitrates ==
    { UInt(n) : n \in 0..MaxSmallBitrate }
      \cup { UInt(n) : n \in { 296295, 296296, 296297, 1000000, 4000000,
                               296296295, 296296296, 296296297,
                               1999999999, 2000000000, 2000000001, 2147483647 } }
      \cup { [hi |-> 32768, lo |-> 0], [hi |-> 32768, lo |-> 1],
             [hi |-> 33908, lo |-> 27534], [hi |-> 33908, lo |-> 27535],
             [hi |-> 50862, lo |-> 41301], [hi |-> 50862, lo |-> 41302],
             [hi |-> 65535, lo |-> 0], [hi |-> 65535, lo |-> 65535] }

\* the statics ppm_resolution_hz, ppm_rx_min, ppm_rx_max (lines 82-86)
InitBitrate ==
    /\ pc = "idle"
    /\ args = [bitrate |-> UInt(0)]
    /\ loc = NoLoc
    /\ retval = NoRet
    /\ sess = NoSession
    /\ rx_queue = << >>
    /\ bus = [ppm_resolution_hz |-> UInt(4000000), ppm_rx_min |-> UInt(1000),
              ppm_rx_max |-> UInt(22500)]
    /\ last_tx = NoFrame
    /\ obs = NoObs

\* rmt_ppm_set_bitrate (lines 381-405)
rmt_ppm_set_bitrate_call ==
    /\ \E bitrate \in TimingBitrates :
          /\ args' = [bitrate |-> bitrate]
          /\ IF bitrate = UInt(0)
             THEN /\ retval' = [result |-> "ESP_ERR_INVALID_ARG"]
                  /\ bus' = bus
             ELSE /\ retval' = [result |-> "ESP_OK"]
                  /\ bus' = [ppm_resolution_hz |-> set_bitrate_resolution_hz(bitrate),
                             ppm_rx_min |-> set_bitrate_rx_min(bitrate),
                             ppm_rx_max |-> set_bitrate_rx_max(bitrate)]
    /\ pc' = "returned"
    /\ UNCHANGED << loc, sess, rx_queue, last_tx, obs >>

NextBitrate == rmt_ppm_set_bitrate_call

SpecBitrate == InitBitrate /\ [][NextBitrate]_vars

(***************************************************************************)
(* Properties                                                              *)
(***************************************************************************)
Last(seq) == seq[Len(seq)]
Count(seq, x) == Cardinality({ i \in 1..Len(seq) : seq[i] = x })
Range(seq) == { seq[i] : i \in 1..Len(seq) }

\* an invocation of ppmbtl_doAction with a HEX container has returned
doActionReturned ==
    /\ pc = "returned"
    /\ args.entry = "ppmbtl_doAction"
    /\ ~args.ihex.is_null

\* C1: every invocation of ppmbtl_doAction makes exactly one Chip-reset
\* session attempt before it returns, whatever happened before: the ids of
\* the session frames of a returned invocation hold PPM_SESSION_CHIP_RESET
\* exactly once.  (Stated for the invocations that have a HEX container; the
\* one without returns before anything is done.)
C1_ExactlyOneChipReset ==
    doActionReturned => Count(obs.sessions, PPM_SESSION_CHIP_RESET) = 1

\* the Unlock session was acknowledged with a project id the catalog does
\* not know, or knows without a PPM bootloader record
UnlockedUnsupportedChip ==
    /\ doActionReturned
    /\ ~args.broadcast
    /\ loc.project_id # 0
    /\ \/ mlxchip_getCamcuChip(loc.project_id) = 0
       \/ ~Catalog[loc.project_id].ppm_loader.present

\* C2: when the Unlock session returns a project id without a descriptor, or
\* with a descriptor that has no PPM bootloader record, ppmbtl_doAction
\* returns PPM_FAIL_CHIP_NOT_SUPPORTED, and the sessions of the invocation
\* are the Unlock and the Chip-reset session and no other.
C2_UnknownChipNotSupported ==
    UnlockedUnsupportedChip =>
        /\ retval.result = PPM_FAIL_CHIP_NOT_SUPPORTED
        /\ obs.sessions = << PPM_SESSION_UNLOCK, PPM_SESSION_CHIP_RESET >>

\* the flash or flash-CS programming routine was entered, for a chip that
\* the Unlock reply identified, and the invocation has returned
ProgramRoutineReturned ==
    /\ doActionReturned
    /\ ~args.broadcast
    /\ args.action = "PPM_ACT_PROGRAM"
    /\ args.memory \in {"PPM_MEM_FLASH", "PPM_MEM_FLASH_CS"}
    /\ loc.chip_info # 0
    /\ Catalog[loc.chip_info].ppm_loader.present
    /\ (args.memory = "PPM_MEM_FLASH_CS"
            => Catalog[loc.chip_info].ppm_loader.flash_cs_programming_session)

\* C3: when flash or flash-CS is programmed, a chip with programming keys
\* gets exactly one Prog-keys session, before the programming session; a
\* chip without keys gets none, the routine does not fail for it, and the
\* programming session is made whenever the image has data for the memory.
C3_ProgKeysOnlyIfPresent ==
    ProgramRoutineReturned =>
        LET chip      == Catalog[loc.chip_info]
            flash     == args.memory = "PPM_MEM_FLASH"
            mem       == IF flash THEN chip.flash ELSE chip.flash_cs
            memEnd    == mem.start + (IF flash THEN mem.length ELSE mem.writeable) - 1
            programId == IF flash THEN PPM_SESSION_FLASH_PROG
                         ELSE PPM_SESSION_FLASH_CS_PROG
        IN  IF chip.ppm_loader.has_keys
            THEN /\ Count(obs.sessions, PPM_SESSION_PROG_KEYS) = 1
                 /\ obs.sessions[2] = PPM_SESSION_PROG_KEYS
                 /\ Count(obs.sessions, programId) <= 1
            ELSE /\ Count(obs.sessions, PPM_SESSION_PROG_KEYS) = 0
                 /\ retval.result # PPM_FAIL_UNKNOWN
                 /\ (~MissingData(args.ihex, mem.start, memEnd)
                        => programId \in Range(obs.sessions))

\* a session that requests acknowledges takes a step of handle_session
AckSessionStep ==
    /\ pc = "api"
    /\ sess.config.request_ack
    /\ sess' # sess

\* the frame at the head of the queue acknowledges the page frame last sent
AckMatches ==
    /\ rx_queue # <<>>
    /\ Head(rx_queue).type = "ftPage"
    /\ Head(rx_queue).data = << last_tx.data[1] >>

\* C4: in a session with request_ack, every attempt hands the page to the
\* line once (and transmits it once when the line takes it), attempt k is
\* never beyond page_retry; a matching ack of attempt k ends the page after
\* exactly k attempts, of which k - 1 had a failed ack or a refused frame,
\* and the session goes on with the next page; an ack that times out or
\* mismatches uses up exactly one attempt and transmits nothing.
C4_OneTransmitPerAttempt ==
    [][ AckSessionStep =>
          /\ sess.state = "page_tx" =>
                /\ obs'.attempts = sess.retry + 1
                /\ obs'.attempts <= sess.config.page_retry
                /\ obs'.page_tx <= obs'.attempts
                /\ ~obs'.tx_failed => /\ obs'.page_tx = obs'.attempts
                                      /\ sess'.state = "page_ack"
          /\ (sess.state = "page_ack" /\ AckMatches) =>
                /\ obs.attempts = sess.retry + 1
                /\ obs.page_tx = obs.acks_failed + 1
                /\ obs'.page_tx = obs.page_tx
                /\ obs'.pages_ok = obs.pages_ok + 1
                /\ sess'.seqnr = sess.seqnr + 1
                /\ sess'.state = IF sess.seqnr + 1 < sess.page_count
                                 THEN "page_tx" ELSE "session_ack"
          /\ (sess.state = "page_ack" /\ ~AckMatches) =>
                /\ obs'.acks_failed = obs.acks_failed + 1
                /\ obs'.page_tx = obs.page_tx
                /\ obs'.pages_ok = obs.pages_ok
                /\ sess'.retry = sess.retry + 1
                /\ sess'.seqnr = sess.seqnr
                /\ sess'.state = IF sess.retry + 1 < sess.config.page_retry
                                 THEN "page_tx" ELSE "done"
      ]_vars

\* a session of one page whose first ack failed and whose second matched
\* has sent the page twice and has succeeded
C4_SecondAttemptAcknowledged ==
    /\ pc = "returned"
    /\ args.entry \in PageEntryPoints
    /\ args.config.request_ack
    /\ args.config.page_retry = MaxRetry
    /\ sess.page_count = 1
    /\ obs.acks_failed = 1
    /\ obs.page_tx = 2
    /\ obs.pages_ok = 1
    /\ retval.result = "ESP_OK"

\* ids of the sessions that program a memory
ProgrammingSessions ==
    {PPM_SESSION_FLASH_PROG, PPM_SESSION_FLASH_CS_PROG, PPM_SESSION_EEPROM_PROG}

BroadcastDelays(config, n) ==
    [i \in 1..(n + 1) |-> IF i = n + 1 THEN config.session_ack_timeout
                          ELSE IF i = 1 THEN config.page0_ack_timeout
                          ELSE config.pageX_ack_timeout]

\* C6: a session entry point called with request_ack = false takes nothing
\* from the receive queue and sends no page twice; when it returns (the line
\* having taken every frame) it returns ESP_OK, has sent every page once and
\* has waited the page time after every page and the session time at the end.
C6_BroadcastNeverFails ==
    [][ (pc = "api" /\ ~args.config.request_ack) =>
          /\ Len(rx_queue') >= Len(rx_queue)
          /\ SubSeq(rx_queue', 1, Len(rx_queue)) = rx_queue
          /\ obs'.page_tx <= 1
          /\ obs'.acks_failed = 0
          /\ (pc' = "returned" /\ ~obs.tx_failed) =>
                LET pages == IF sess.has_data THEN sess.page_count ELSE 0
                IN  /\ retval'.result = "ESP_OK"
                    /\ obs.pages_ok = pages
                    /\ obs.delays = BroadcastDelays(args.config, pages)
                    /\ obs.ack_waits = 1
      ]_vars

\* a two-page broadcast session on a silent bus has returned ESP_OK
C6_SilentBroadcastDone ==
    /\ pc = "returned"
    /\ args.entry = "ppmsession_doFlashProgramming"
    /\ ~args.config.request_ack
    /\ ~obs.tx_failed
    /\ rx_queue = <<>>
    /\ obs.pages_ok = 2
    /\ obs.delays = << 100, 10, 10 >>
    /\ retval.result = "ESP_OK"

\* handle_session takes a session frame of four words as the reply
SessionReplyStep ==
    /\ pc = "api"
    /\ sess.state = "session_ack"
    /\ sess.config.request_ack
    /\ sess' # sess
    /\ rx_queue # <<>>
    /\ Head(rx_queue).type = "ftSession"
    /\ Len(Head(rx_queue).data) = 4

CeilDiv(a, b) == (a + b - 1) \div b

\* C8: word 1 of the session frame is ceil(payload words / page_size) when
\* the page size is not 0, and 0 when it is.
C8_PageCountIsCeiling ==
    last_tx.type = "ftSession" =>
        last_tx.data[2] = IF sess.config.page_size = 0 THEN 0
                          ELSE CeilDiv(sess.page_data_len, sess.config.page_size)

\* a session frame for 257 words in pages of 255 announces 2 pages
C8_PartialLastPage ==
    /\ last_tx.type = "ftSession"
    /\ sess.config.page_size = 255
    /\ sess.page_data_len = 257
    /\ last_tx.data[2] = 2

\* word i (from 1) of the payload of the running session, 0 past its end
PayloadWord(i) ==
    IF i <= sess.page_data_len /\ i <= Len(sess.page_data) THEN sess.page_data[i] ELSE 0

\* C9: the page frame with sequence number s of a session with page size P
\* has P data words, and they are the payload words s*P .. s*P+P-1, with 0
\* for every position past the end of the payload.
C9_PageCarriesPayload ==
    (pc = "api" /\ last_tx.type = "ftPage") =>
        LET P == sess.config.page_size
            s == Hi8(last_tx.data[1])
        IN  /\ Len(last_tx.data) = P + 1
            /\ \A j \in 1..P : last_tx.data[j + 1] = PayloadWord(s * P + j)

\* C10: in a flash programming session over an image of n whole pages the
\* page frame with sequence number i carries image page i + 1 for i < n - 1,
\* and the last one (i = n - 1) carries image page 0.
C10_FlashPageOrder ==
    (/\ pc = "api"
     /\ args.entry = "ppmsession_doFlashProgramming"
     /\ last_tx.type = "ftPage"
     /\ (Len(args.data) \div 2) % args.config.page_size = 0) =>
        LET P     == args.config.page_size
            image == BytesAsWords(args.data)
            n     == Len(image) \div P
            i     == Hi8(last_tx.data[1])
            k     == IF i < n - 1 THEN i + 1 ELSE 0
        IN  SubSeq(last_tx.data, 2, P + 1) = SubSeq(image, k * P + 1, k * P + P)

\* NVRAM is being programmed by the running invocation
ProgrammingEeprom ==
    /\ args.entry = "ppmbtl_doAction"
    /\ ~args.ihex.is_null
    /\ args.memory = "PPM_MEM_NVRAM"
    /\ args.action = "PPM_ACT_PROGRAM"

\* page p of the writeable EEPROM holds at least one byte of the image
PageHasBytes(ihex, p) ==
    \E a \in DOMAIN ihex.data :
        (a >= CatalogNvMemory.start) /\ ((a - CatalogNvMemory.start) \div CatalogNvMemory.page = p)

\* the maximal runs of consecutive pages that hold bytes of the image, in
\* the order of their first pages, among the pages of the first extent bytes
EepromRuns(ihex, extent) ==
    LET Pages  == 0..((extent \div CatalogNvMemory.page) - 1)
        Starts == { p \in Pages : PageHasBytes(ihex, p)
                                    /\ (p = 0 \/ ~PageHasBytes(ihex, p - 1)) }
        RunOf(p) == [first |-> p,
                     pages |-> Cardinality({ q \in Pages :
                                   q >= p /\ \A r \in p..q : PageHasBytes(ihex, r) })]
        order  == CHOOSE f \in [1..Cardinality(Starts) -> Starts] :
                      \A i, j \in 1..Cardinality(Starts) : i < j => f[i] < f[j]
    IN  [i \in 1..Cardinality(Starts) |-> RunOf(order[i])]

\* the bytes of a run, gaps filled
RunBytes(ihex, run) ==
    intelhex_getFilled(ihex, CatalogNvMemory.start + run.first * CatalogNvMemory.page,
                       run.pages * CatalogNvMemory.page)

\* the session frames of the EEPROM-program sessions of the invocation
EepromProgramFrames ==
    SelectSeq(obs.frames, LAMBDA w : (w[1] \div 256) % 128 = PPM_SESSION_EEPROM_PROG)

\* C11: when NVRAM is programmed, the EEPROM-program sessions are those of
\* the maximal runs of consecutive pages that hold HEX bytes, one session per
\* run in the order of the runs: the session frame of a run carries the
\* number of the run's pages as page count, the index of the run's first
\* page as page offset and the CRC of the run's bytes; the session is entered
\* with exactly the run's bytes as payload and, when it succeeds, has sent as
\* many pages as the run has; no other EEPROM-program session is made, and an
\* invocation that programmed the chip and returns PPM_OK has made the
\* session of every run.
C11_OneSessionPerRun ==
    ProgrammingEeprom =>
        LET runs == EepromRuns(args.ihex, CatalogNvMemory.writeable)
            sent == EepromProgramFrames
        IN  /\ Len(sent) <= Len(runs)
            /\ \A i \in 1..Len(sent) :
                  /\ sent[i][2] = runs[i].pages
                  /\ sent[i][3] = runs[i].first
                  /\ sent[i][4] = crc_calc16bitCrc(RunBytes(args.ihex, runs[i]),
                                                   Len(RunBytes(args.ihex, runs[i])), 7439)
            /\ pc = "ppmsession_doEepromProgramming" =>
                  LET k == IF sess.state = "start" THEN Len(sent) + 1 ELSE Len(sent)
                  IN  /\ k <= Len(runs)
                      /\ sess.page_data = BytesAsWords(RunBytes(args.ihex, runs[k]))
                      /\ sess.page_data_len = Len(sess.page_data)
                      /\ (sess.state = "done" /\ ~obs.tx_failed
                             /\ ppmsession_doEepromProgramming_ret(sess).result = "ESP_OK")
                            => obs.pages_ok = runs[k].pages
            /\ (pc = "returned" /\ retval.result = PPM_OK /\ loc.chip_info # 0)
                  => Len(sent) = Len(runs)

\* an image with bytes in pages 0 and 3 only was programmed with two
\* sessions of one page each, at the page offsets 0 and 3
C11_SparseImageTwoSessions ==
    /\ ProgrammingEeprom
    /\ pc = "returned"
    /\ retval.result = PPM_OK
    /\ ~args.broadcast
    /\ ~obs.tx_failed
    /\ DOMAIN args.ihex.data = (128..131) \cup (140..143)
    /\ Len(EepromProgramFrames) = 2
    /\ EepromProgramFrames[1][2] = 1
    /\ EepromProgramFrames[1][3] = 0
    /\ EepromProgramFrames[2][2] = 1
    /\ EepromProgramFrames[2][3] = 3

\* the CRC session of a verify routine is over and the routine goes on
VerifyStep ==
    /\ pc \in {"ppmsession_doFlashCrc", "ppmsession_doFlashCsCrc", "ppmsession_doEepromCrc"}
    /\ sess.state = "done"
    /\ sess' # sess

\* the session frames of the EEPROM-CRC sessions of the invocation
EepromCrcFrames ==
    SelectSeq(obs.frames, LAMBDA w : (w[1] \div 256) % 128 = PPM_SESSION_EEPROM_CRC)

\* the CRC of the gap-filled bytes the CRC session that is over was about
LocalCrc ==
    LET chip == Catalog[loc.chip_info]
    IN  CASE pc = "ppmsession_doFlashCrc" ->
                crc_calc24bitCrc(
                    BytesAsWords(intelhex_getFilled(args.ihex, chip.flash.start,
                                                    chip.flash.length)),
                    chip.flash.length \div 2, 1)
          [] pc = "ppmsession_doFlashCsCrc" ->
                LET n == flashCs_memLen(args.ihex, chip.flash_cs, chip.flash_cs.length)
                IN  crc_calc16bitCrc(intelhex_getFilled(args.ihex, chip.flash_cs.start, n),
                                     n, 7439)
          [] pc = "ppmsession_doEepromCrc" ->
                LET run == EepromRuns(args.ihex, chip.nv_memory.length)[Len(EepromCrcFrames)]
                IN  crc_calc16bitCrc(RunBytes(args.ihex, run),
                                     Len(RunBytes(args.ihex, run)), 7439)

\* the session was acknowledged by a reply of four words
CrcAcknowledged == (~sess.rx_null) /\ sess.ret_len = 4

\* the CRC the reply carries: 24 bit for the flash, 16 bit else
ReplyCrc ==
    IF pc = "ppmsession_doFlashCrc"
    THEN (sess.rx_data[3] % 256) * 65536 + sess.rx_data[4]
    ELSE sess.rx_data[4]

TargetRange ==
    LET chip == Catalog[loc.chip_info]
        mem  == CASE args.memory = "PPM_MEM_FLASH" -> chip.flash
                  [] args.memory = "PPM_MEM_FLASH_CS" -> chip.flash_cs
                  [] args.memory = "PPM_MEM_NVRAM" -> chip.nv_memory
        len  == IF args.action = "PPM_ACT_PROGRAM" /\ args.memory # "PPM_MEM_FLASH"
                THEN mem.writeable ELSE mem.length
    IN  mem.start..(mem.start + len - 1)

\* a routine of a supported chip was entered with an image that has no byte
\* in the target range, and the invocation has returned
OutsideImageReturned ==
    /\ doActionReturned
    /\ ~args.broadcast
    /\ loc.chip_info # 0
    /\ Catalog[loc.chip_info].ppm_loader.present
    /\ (args.memory = "PPM_MEM_FLASH_CS"
            => Catalog[loc.chip_info].ppm_loader.flash_cs_programming_session)
    /\ (args.memory = "PPM_MEM_NVRAM" /\ args.action = "PPM_ACT_VERIFY"
            => Catalog[loc.chip_info].ppm_loader.eeprom_verification_session)
    /\ DOMAIN args.ihex.data \cap TargetRange = {}

\* C13: when the HEX image has no byte in the target memory range, a program
\* or verify action returns PPM_FAIL_MISSING_DATA and the sessions of the
\* invocation are the Unlock and the Chip-reset session and no other: no
\* Prog-keys, programming or CRC session is made.
C13_MissingDataNoSession ==
    OutsideImageReturned =>
        /\ retval.result = PPM_FAIL_MISSING_DATA
        /\ obs.sessions = << PPM_SESSION_UNLOCK, PPM_SESSION_CHIP_RESET >>

\* ppmbtl_doAction was called without HEX container and has returned
NullHexReturned ==
    /\ pc = "returned"
    /\ args.entry = "ppmbtl_doAction"
    /\ args.ihex.is_null

\* C14: ppmbtl_doAction called without a HEX container returns
\* PPM_FAIL_INV_HEX_FILE and has done nothing: no power callout, no delay,
\* no pattern, no calibration frame and no session, nothing was handed to
\* the line and the chip was not addressed.
C14_NullHexNothingDone ==
    NullHexReturned =>
        /\ retval.result = PPM_FAIL_INV_HEX_FILE
        /\ obs = NoObs
        /\ last_tx = NoFrame
        /\ sess = NoSession
        /\ bus = InitBus
        /\ rx_queue = << >>

\* an invocation without HEX container, which would cycle the power of a
\* powered chip, has returned
C14_NullHexHostPower ==
    /\ NullHexReturned
    /\ ~args.manpow
    /\ retval.result = PPM_FAIL_INV_HEX_FILE

\* handle_session, called through the session API, takes a step
SessionStep ==
    /\ pc = "api"
    /\ sess' # sess

\* the step of an attempt in which the line took the page frame
PageTransmitted ==
    /\ sess.state = "page_tx"
    /\ sess'.state = "page_ack" \/ sess'.seqnr # sess.seqnr

\* C15: the frames of a session keep their order.  The session frame is the
\* first frame handed to the line, and when the line refuses it nothing else
\* is sent.  A page frame is transmitted only after the session frame, it
\* carries the sequence number of the page that follows the pages that have
\* succeeded so far, and the frame before it on the line is the session
\* frame (page 0), a frame of the same page (retry) or a frame of the page
\* before; the number of succeeded pages grows by one at a time.  The wait
\* for the session ack (or the session delay) starts once, after every page
\* has succeeded, and no frame is transmitted after it.
C15_FrameOrder ==
    [][ SessionStep =>
          /\ sess.state = "start" =>
                /\ last_tx = NoFrame
                /\ obs.sessions = << >>
                /\ \/ /\ last_tx'.type = "ftSession"
                      /\ last_tx'.data = send_session_frame(sess.config, sess'.page_count,
                                                            sess.offset, sess.checksum)
                      /\ bus'.session = last_tx'.data
                   \/ /\ last_tx' = NoFrame
                      /\ sess'.state = "done"
          /\ sess.state = "page_tx" =>
                /\ bus.session = send_session_frame(sess.config, sess.page_count,
                                                    sess.offset, sess.checksum)
                /\ obs.ack_waits = 0
                /\ sess.seqnr = obs.pages_ok
                /\ sess.seqnr < sess.page_count
                /\ last_tx.type = "ftSession" => sess.seqnr = 0
                /\ last_tx.type = "ftPage" =>
                      Hi8(last_tx.data[1]) \in {sess.seqnr, sess.seqnr - 1}
                /\ IF PageTransmitted
                   THEN /\ last_tx'.type = "ftPage"
                        /\ Hi8(last_tx'.data[1]) = sess.seqnr
                   ELSE last_tx' = last_tx
          /\ sess.state = "page_ack" =>
                /\ last_tx' = last_tx
                /\ Hi8(last_tx.data[1]) = sess.seqnr
          /\ sess.state # "start" =>
                /\ obs'.pages_ok \in {obs.pages_ok, obs.pages_ok + 1}
                /\ obs'.pages_ok = obs.pages_ok + 1 =>
                      /\ last_tx'.type = "ftPage"
                      /\ Hi8(last_tx'.data[1]) = obs.pages_ok
          /\ sess.state = "session_ack" =>
                /\ obs.ack_waits = 0
                /\ obs'.ack_waits = 1
                /\ sess.has_data => obs.pages_ok = sess.page_count
                /\ obs.pages_ok > 0 =>
                      /\ last_tx.type = "ftPage"
                      /\ Hi8(last_tx.data[1]) = sess.page_count - 1
                /\ last_tx' = last_tx
                /\ sess'.state = "done"
      ]_vars

\* a session of several pages with acknowledges has had every page and the
\* session acknowledged
C15_AllPagesThenSessionAck ==
    /\ pc = "api"
    /\ sess.state = "done"
    /\ sess.config.request_ack
    /\ sess.page_count >= 2
    /\ obs.pages_ok = sess.page_count
    /\ obs.ack_waits = 1
    /\ ~sess.rx_null

\* the frames that were or are queued, in the order the foreground gets them
QueueOrder == obs.taken \o rx_queue

\* C16: the receive queue holds at most RX_QUEUE_LENGTH (4) frames; the
\* frames the foreground takes and those still queued are, in this order,
\* the decoded frames in the order of their receive completions, less those
\* that decoded while the queue was full; such a frame is dropped and leaves
\* the 4 queued frames as they are.
C16_QueueIsFifo ==
    [][ /\ Len(rx_queue) <= RX_QUEUE_LENGTH
        /\ \A i, j \in 1..Len(QueueOrder) :
              i < j => QueueOrder[i].data[1] < QueueOrder[j].data[1]
        /\ { QueueOrder[i].data[1] : i \in 1..Len(QueueOrder) }
              = obs.decoded \ obs.overflow
        /\ (obs'.arrived # obs.arrived /\ Len(rx_queue) = RX_QUEUE_LENGTH)
              => /\ rx_queue' = rx_queue
                 /\ obs'.taken = obs.taken
        /\ (obs'.arrived # obs.arrived /\ Len(rx_queue) < RX_QUEUE_LENGTH
               /\ obs'.decoded # obs.decoded)
              => /\ Len(rx_queue') = Len(rx_queue) + 1
                 /\ SubSeq(rx_queue', 1, Len(rx_queue)) = rx_queue
                 /\ rx_queue'[Len(rx_queue')].data = << obs'.arrived >>
        /\ obs'.taken # obs.taken
              => /\ obs'.taken = Append(obs.taken, Head(rx_queue))
                 /\ rx_queue' = Tail(rx_queue)
      ]_vars

\* a frame was dropped at a full queue, and the foreground has since taken
\* the four frames that were queued before it and a later one
C16_NewestDropped ==
    /\ obs.overflow = {5}
    /\ Len(obs.taken) = 5
    /\ obs.decoded = 1..6
    /\ obs.taken[5].data = << 6 >>

\* the line transmits and receives at the same time
FullDuplex == bus.tx_chan = "transmitting" /\ bus.rx_chan = "receiving"

\* C17: the line never transmits and receives at the same time; the
\* receiver gets armed only in the step that completes a transmission, and
\* stays armed over a receive completion only when that carries is_last; a
\* send function first disables the receiver, and a transmission starts
\* with the receiver not armed.
C17_HalfDuplex ==
    [][ /\ ~FullDuplex
        /\ ~FullDuplex'
        /\ (bus'.rx_chan = "receiving" /\ bus.rx_chan # "receiving")
              => /\ obs'.event = "tx_done_cb"
                 /\ bus.tx_chan = "transmitting"
                 /\ bus'.tx_chan = "idle"
        /\ obs'.event = "rx_done_cb is_last"
              => /\ bus.rx_chan = "receiving"
                 /\ bus'.rx_chan = "receiving"
        /\ obs'.event = "rx_done_cb" => bus'.rx_chan = "enabled"
        /\ (pc = "idle" /\ pc' # "idle") => bus'.rx_chan = "init"
        /\ (bus'.tx_chan = "transmitting" /\ bus.tx_chan # "transmitting")
              => /\ pc = "rmt_transmit"
                 /\ bus.rx_chan = "enabled"
                 /\ bus'.rx_chan = "enabled"
      ]_vars

\* a send function was entered while the receiver was armed, and its
\* transmission is going on
C17_TransmittingAfterReception ==
    /\ bus.tx_chan = "transmitting"
    /\ bus.rx_chan = "enabled"
    /\ rx_queue # << >>
    /\ pc = "xSemaphoreTake"

\* C18: encoding and decoding are inverses: the symbols the encoder makes
\* of a session or page frame with a byte buffer of at most 258 bytes
\* (leading pulse, four symbols per byte, trailing low) decode to the same
\* frame type and the same bytes.
C18_DecodeInvertsEncode ==
    (pc = "decoded" /\ Len(args.data) <= FRAME_DATA_SIZE)
        => /\ retval.err = "ESP_OK"
           /\ retval.type = args.type
           /\ retval.data = args.data
           /\ retval.data_len = Len(args.data)

\* a page frame that fills the frame buffer has been decoded again, its
\* bytes using all four symbol values
C18_FullBufferDecoded ==
    /\ pc = "decoded"
    /\ args.type = "ftPage"
    /\ Len(args.data) = FRAME_DATA_SIZE
    /\ Len(bus.symbols) = SYMBOLS_PER_BYTE * FRAME_DATA_SIZE + 2
    /\ \A v \in 0..3 : \E n \in 1..Len(args.data) : args.data[n] % 4 = v
    /\ retval.data = args.data

\* the mean symbol width 2 * 10^9 / B [ns] of the bitrate B, rounded down
\* and rounded up
MeanWidth(bitrate) ==
    UDivMod(UInt(2000000000), bitrate, [k |-> 46, q |-> UInt(0), r |-> UInt(0)])
MeanWidthFloor(bitrate) == MeanWidth(bitrate).q
MeanWidthCeil(bitrate) ==
    IF MeanWidth(bitrate).r = UInt(0) THEN MeanWidth(bitrate).q
    ELSE UNorm(MeanWidth(bitrate).q.hi, MeanWidth(bitrate).q.lo + 1)

\* C19: for every bitrate B > 0 the receive window derived by
\* rmt_ppm_set_bitrate holds the mean symbol width w = 2 * 10^9 / B ns
\* strictly inside: rx_min_ns < w < rx_max_ns.  (For whole numbers m,
\* m < w means m < ceiling(w), and w < m means floor(w) < m.)
C19_MeanWidthInsideWindow ==
    (pc = "returned" /\ retval.result = "ESP_OK")
        => /\ ULess(bus.ppm_rx_min, MeanWidthCeil(args.bitrate))
           /\ ULess(MeanWidthFloor(args.bitrate), bus.ppm_rx_max)

\* the bitrate 1 bps has been set, whose upper limit 6666666666 ns does not
\* fit in 32 bits and is stored as 2371699370 (36189 * 2^16 + 17066)
C19_UpperLimitWrapped ==
    /\ pc = "returned"
    /\ retval.result = "ESP_OK"
    /\ args.bitrate = UInt(1)
    /\ bus.ppm_rx_max = [hi |-> 36189, lo |-> 17066]
    /\ bus.ppm_rx_min = UInt(296296296)

\* C20: a page of exactly 128 data words is accepted and transmitted; a
\* page of 129 words is rejected with InvalidArg and is not observable on
\* the wire: no frame of a session whose page size exceeds 128 words is
\* transmitted, and the entry point returns ESP_ERR_INVALID_ARG.
C20_PageSizeLimit ==
    /\ (args.entry \in PageEntryPoints /\ args.config.page_size = MAX_PAGE_WORDS
          /\ ~obs.tx_failed)
          => obs.page_tx = obs.attempts
    /\ (args.entry \in PageEntryPoints /\ args.config.page_size > MAX_PAGE_WORDS)
          => /\ last_tx = NoFrame
             /\ obs.page_tx = 0
             /\ pc = "returned" => retval.result = "ESP_ERR_INVALID_ARG"

\* the calls ppmbtl_enterProgrammingMode made before the Unlock session
EnterSteps ==
    SelectSeq(obs.steps,
              LAMBDA st : st.op \in {"rmt_ppm_send_enter_ppm_pattern",
                                     "rmt_ppm_set_bitrate",
                                     "rmt_ppm_send_calibration_frame"}
                          \/ st = Step("vTaskDelay", 5))
EnterOrder ==
    << "rmt_ppm_send_enter_ppm_pattern", "vTaskDelay", "rmt_ppm_set_bitrate",
       "rmt_ppm_send_calibration_frame" >>
EnterStepsUpTo(n) ==
    /\ Len(EnterSteps) = n
    /\ \A k \in 1..n : EnterSteps[k].op = EnterOrder[k]
ProgramOrVerifySessions ==
    { PPM_SESSION_PROG_KEYS, PPM_SESSION_FLASH_PROG, PPM_SESSION_EEPROM_PROG,
      PPM_SESSION_FLASH_CS_PROG, PPM_SESSION_FLASH_CRC, PPM_SESSION_EEPROM_CRC,
      PPM_SESSION_FLASH_CS_CRC }

\* C21: entry to programming mode runs enter pattern, 5 ms wait, bitrate,
\* calibration frame, Unlock session, chip lookup in this order; a step that
\* fails stops all later steps and determines the result (-17 enter pattern,
\* -16 bitrate, -18 calibration, -19 Unlock, -20 chip lookup), and no
\* programming or verify session is started unless all steps succeeded.
C21_EnterSequence ==
    doActionReturned =>
        /\ \E n \in 0..4 : EnterStepsUpTo(n)
        /\ retval.result = PPM_FAIL_BTL_ENTER_PPM_MODE
              => (EnterStepsUpTo(1) /\ obs.sessions = << >>)
        /\ retval.result = PPM_FAIL_SET_BAUD
              => (EnterStepsUpTo(3) /\ obs.sessions = << >>)
        /\ retval.result = PPM_FAIL_CALIBRATION
              => (EnterStepsUpTo(4) /\ obs.sessions = << >>)
        /\ retval.result = PPM_FAIL_UNLOCK
              => (EnterStepsUpTo(4) /\ obs.sessions = << PPM_SESSION_UNLOCK >>)
        /\ (obs.sessions # << >> /\ loc.project_id # 0
               /\ (mlxchip_getCamcuChip(loc.project_id) = 0
                     \/ ~Catalog[loc.project_id].ppm_loader.present))
              => retval.result = PPM_FAIL_CHIP_NOT_SUPPORTED
        /\ (Range(obs.sessions) \cap ProgramOrVerifySessions # {})
              => /\ EnterStepsUpTo(4)
                 /\ obs.sessions[1] = PPM_SESSION_UNLOCK
                 /\ loc.chip_info # 0
                 /\ Catalog[loc.chip_info].ppm_loader.present

\* the word 0 a session expects in its reply: (session_id << 8) | page_size
ExpectedWord0 == sess.config.session_id * 256 + sess.config.page_size

PageAckStep == pc = "api" /\ sess.state = "page_ack" /\ sess' # sess

\* the first word the acknowledge of the page in flight has to carry
PageAckWord == (sess.seqnr % 256) * 256 + (sess.page_checksum % 256)

\* the frame the wait takes is a page frame whose first word is PageAckWord
PageAckMatches ==
    /\ rx_queue # << >>
    /\ Head(rx_queue).type = "ftPage"
    /\ Len(Head(rx_queue).data) > 0
    /\ Head(rx_queue).data[1] = PageAckWord

\* C23: with request_ack a page attempt succeeds exactly when the wait, which
\* lasts page0_ack_timeout for page 0 and pageX_ack_timeout for the others,
\* takes a page frame whose first word is ((seq & 0xFF) << 8) | (checksum &
\* 0xFF); a session frame, another first word or no frame fails the attempt
C23_PageAckAccepted ==
    [][PageAckStep =>
        /\ sess.config.request_ack
        /\ obs'.wait = IF sess.seqnr = 0 THEN sess.config.page0_ack_timeout
                       ELSE sess.config.pageX_ack_timeout
        /\ rx_queue' = IF rx_queue = << >> THEN rx_queue ELSE Tail(rx_queue)
        /\ (obs'.pages_ok = obs.pages_ok + 1) <=> PageAckMatches
        /\ PageAckMatches => sess'.seqnr = sess.seqnr + 1
        /\ ~PageAckMatches =>
               /\ obs'.acks_failed = obs.acks_failed + 1
               /\ obs'.pages_ok = obs.pages_ok
               /\ sess'.seqnr = sess.seqnr
               /\ sess'.retry = sess.retry + 1]_vars

\* the second page was acknowledged within pageX_ack_timeout after one of its
\* attempts had failed
C23_SecondPageAcked ==
    /\ pc = "api"
    /\ sess.config.request_ack
    /\ sess.seqnr = 2
    /\ obs.pages_ok = 2
    /\ obs.acks_failed = 1
    /\ obs.wait = sess.config.pageX_ack_timeout
    /\ obs.wait # sess.config.page0_ack_timeout


\* ---------------------------------------------------------------------------
\* C24
\* ---------------------------------------------------------------------------

\* a wait of the session for an acknowledge takes a frame from the queue
WaitTakesFrame ==
    /\ pc = "api"
    /\ sess.state \in {"page_ack", "session_ack"}
    /\ sess.config.request_ack
    /\ rx_queue # << >>
    /\ rx_queue' = Tail(rx_queue)

\* C24: a frame the session takes as the acknowledge of a page or session
\* frame was queued after that frame had been transmitted; a frame an
\* earlier attempt or session left in the queue is never taken as the answer
\* to a later frame
C24_NoStaleAck == [][WaitTakesFrame => obs.stale = 0]_vars


\* ---------------------------------------------------------------------------
\* C25
\* ---------------------------------------------------------------------------

\* the reception is over and one of the data symbols the decoder looked at
\* was out of range
BadDataSymbol ==
    /\ pc = "received"
    /\ args.at > 1
    /\ args.at < Len(bus.symbols)
    /\ args.time < SYMBOL_TIME_MIN \/ args.time > SYMBOL_TIME_MAX

\* C25: a received symbol stream with a data symbol whose total time is below
\* 18 or above 90 is discarded as a whole: no frame, not even the bytes
\* decoded before the bad symbol, is put on the receive queue
C25_BadSymbolDiscardsFrame == BadDataSymbol => rx_queue = << >>


\* ---------------------------------------------------------------------------
\* C28
\* ---------------------------------------------------------------------------

\* the total time of the leading pulse received
LeadTime == bus.symbols[1].duration0 + bus.symbols[1].duration1

\* how far the leading pulse is from the nominal time t
LeadOff(t) == IF LeadTime >= t THEN LeadTime - t ELSE t - LeadTime

\* what the reception made of a frame, if the leading pulses at most tol
\* away from a nominal time are the ones to be accepted
LeadClassified(tol) ==
    LET near(t) == LeadOff(t) <= tol IN
    /\ near(PPM_SESSION_PULSE_TIME)
          => /\ retval.err = "ESP_OK"
             /\ retval.type = "ftSession"
             /\ rx_queue # << >> /\ Head(rx_queue).type = "ftSession"
    /\ near(PPM_PAGE_PULSE_TIME)
          => /\ retval.err = "ESP_OK"
             /\ retval.type = "ftPage"
             /\ rx_queue # << >> /\ Head(rx_queue).type = "ftPage"
    /\ ~near(PPM_SESSION_PULSE_TIME) /\ ~near(PPM_PAGE_PULSE_TIME)
          => /\ retval.err = "ESP_FAIL"
             /\ rx_queue = << >>

C27_ReceiverRearmed ==
    [][ /\ obs'.event = "tx_done_cb"
           => /\ pc = "xSemaphoreTake" /\ pc' = "xSemaphoreTake"
              /\ bus'.tx_done_sem = 1
              /\ bus'.rx_chan = "receiving"
        /\ (pc = "xSemaphoreTake" /\ pc' = "idle")
           => /\ bus.rx_chan = "receiving"
              /\ bus'.rx_chan = "receiving"
        /\ obs'.event = "rx_done_cb is_last"
           => /\ bus'.rx_chan = "receiving"
              /\ bus'.rx_buffer # bus.rx_buffer
        /\ (pc' = "idle" /\ retval'.result = "ESP_OK")
           => bus'.rx_chan = "receiving"
      ]_vars

\* the send function has returned ESP_OK, two frames have come in since and
\* the receiver is armed for a third
C27_ListeningAfterTwoFrames ==
    /\ pc = "idle"
    /\ retval.result = "ESP_OK"
    /\ obs.event = "rx_done_cb is_last"
    /\ Len(rx_queue) = 2
    /\ bus.rx_chan = "receiving"


\* ---------------------------------------------------------------------------
\* C29
\* ---------------------------------------------------------------------------

FloorByBitrate(num, m, B) == UDiv(num, UNorm(B.hi * m, B.lo * m))

\* C30: for a bitrate B > 0 rmt_ppm_set_bitrate sets resolution_hz to
\* floor(B * 27 / 2), rx_min to floor(8 * 10^9 / (27 * B)) and rx_max to
\* floor(20 * 10^9 / (3 * B)), none of them wrapped to 32 bits; a bitrate of
\* 0 is rejected with ESP_ERR_INVALID_ARG and changes none of the three
C30_TimingValues ==
    [][ pc' = "returned" =>
        IF args'.bitrate = UInt(0)
        THEN /\ retval'.result = "ESP_ERR_INVALID_ARG"
             /\ bus' = bus
        ELSE /\ retval'.result = "ESP_OK"
             /\ bus'.ppm_resolution_hz
                   = UDiv(UNorm(args'.bitrate.hi * 27, args'.bitrate.lo * 27), UInt(2))
             /\ bus'.ppm_rx_min
                   = FloorByBitrate([hi |-> 122070, lo |-> 20480], 27, args'.bitrate)
             /\ bus'.ppm_rx_max
                   = FloorByBitrate([hi |-> 305175, lo |-> 51200], 3, args'.bitrate)
      ]_vars


(***************************************************************************)
(* The enter-PPM pattern (rmt_ppm.c, rmt_ppm_send_enter_ppm_pattern)       *)
(***************************************************************************)

\* pulse times of the pattern [us]
EPM_PATTERN_PULSE_TIME_1 == 30
EPM_PATTERN_PULSE_TIME_2 == 90
EPM_PATTERN_PULSE_TIME_3 == 45
EPM_PATTERN_PULSE_TIME_4 == 45

\* EPM pattern total length [us]
epm_pattern_total ==
    EPM_PATTERN_PULSE_TIME_1 + EPM_PATTERN_PULSE_TIME_2
        + EPM_PATTERN_PULSE_TIME_3 + EPM_PATTERN_PULSE_TIME_4

\* the pattern times 0..MaxPatternTime [us] are requested, next to the two
\* ppmbtl_doAction uses
MaxPatternTime == 640

PatternTimes == (0 .. MaxPatternTime) \cup {50000, 100000}

\* lines 427-430: uint32_t division, and one repetition when it gives none
enter_ppm_loop_count(pattern_time) ==
    LET loop_count == pattern_time \div epm_pattern_total
    IN  IF loop_count = 0 THEN 1 ELSE loop_count

InitPattern ==
    /\ pc = "idle"
    /\ args = [pattern_time |-> 0]
    /\ loc = NoLoc
    /\ retval = NoRet
    /\ sess = NoSession
    /\ rx_queue = << >>
    /\ bus = [rx_chan |-> "disabled"]
    /\ last_tx = NoFrame
    /\ obs = NoObs

\* rmt_ppm_send_enter_ppm_pattern (lines 407-447), called once after the
\* set-up; rmt_enable and rmt_transmit may fail
rmt_ppm_send_enter_ppm_pattern ==
    \E pattern_time \in PatternTimes, enabled \in BOOLEAN, transmitted \in BOOLEAN :
       /\ pc = "idle"
       /\ args' = [pattern_time |-> pattern_time]
       /\ pc' = "returned"
       /\ IF pattern_time = 0
          THEN /\ retval' = [result |-> "ESP_ERR_INVALID_ARG"]
               /\ UNCHANGED << bus, last_tx >>
          ELSE IF ~enabled
          THEN /\ retval' = [result |-> "ESP_FAIL"]
               /\ bus' = [rx_chan |-> "disabled"]
               /\ UNCHANGED last_tx
          ELSE IF ~transmitted
          THEN /\ retval' = [result |-> "ESP_FAIL"]
               /\ bus' = [rx_chan |-> "enabled"]
               /\ UNCHANGED last_tx
          ELSE /\ retval' = [result |-> "ESP_OK"]
               /\ bus' = [rx_chan |-> "enabled"]
               /\ last_tx' = [type |-> "ftEnter_Ppm",
                              pulse_times |-> << EPM_PATTERN_PULSE_TIME_1,
                                                 EPM_PATTERN_PULSE_TIME_2,
                                                 EPM_PATTERN_PULSE_TIME_3,
                                                 EPM_PATTERN_PULSE_TIME_4 >>,
                              time |-> pattern_time,
                              loop_count |-> enter_ppm_loop_count(pattern_time)]
       /\ UNCHANGED << loc, sess, rx_queue, obs >>

NextPattern == rmt_ppm_send_enter_ppm_pattern

SpecPattern == InitPattern /\ [][NextPattern]_vars


\* ---------------------------------------------------------------------------
\* C31
\* ---------------------------------------------------------------------------

\* C31: the enter-PPM pattern of the four pulses 30, 90, 45, 45 us (210 us
\* per repetition) is emitted ceil(pattern_time / 210) times, and at least
\* once, for every pattern_time > 0: 239 times for 50000 us, 477 times for
\* 100000 us
C31_PatternRepetitions ==
    [][ (pc' = "returned" /\ retval'.result = "ESP_OK") =>
          /\ args'.pattern_time > 0
          /\ last_tx'.pulse_times = << 30, 90, 45, 45 >>
          /\ last_tx'.loop_count >= 1
          /\ last_tx'.loop_count = CeilDiv(args'.pattern_time, 210)
          /\ (args'.pattern_time = 50000 => last_tx'.loop_count = 239)
          /\ (args'.pattern_time = 100000 => last_tx'.loop_count = 477)
      ]_vars


\* ---------------------------------------------------------------------------
\* C32
\* ---------------------------------------------------------------------------

\* C32: the flash programming session is run with page0_ack_timeout =
\* ceil((memLen / erase_unit) * erase_time * 1.25), pageX_ack_timeout =
\* ceil(write_time * 1.25) and session_ack_timeout = pageX_ack_timeout +
\* ceil(memLen * 0.0000625): rounded up, not truncated (the results of the
\* flash descriptor of the catalog fit in 16 bits)
C32_FlashTimeoutsRoundedUp ==
    pc = "ppmsession_doFlashProgramming" =>
        LET mem == Catalog[loc.chip_info].flash
            memLen == mem.length
            pageX == CeilDiv(mem.write_time * 5, 4)
        IN  /\ sess.config.page0_ack_timeout
                  = CeilDiv((memLen \div mem.erase_unit) * mem.erase_time * 5, 4)
            /\ sess.config.pageX_ack_timeout = pageX
            /\ sess.config.session_ack_timeout = pageX + CeilDiv(memLen, 16000)


(***************************************************************************)
(* The length programmed into flash-CS (rmt_ppm.c,                         *)
(* ppmbtl_programFlashCsMemory) for a range of memory descriptors          *)
(***************************************************************************)

\* flash-CS memories with a writeable length of 1..MaxWriteable bytes
MaxWriteable == 8

FlashCsMemories ==
    { [CatalogFlashCs EXCEPT !.writeable = w, !.page = p] :
          w \in 1 .. MaxWriteable, p \in {2, 4} }

\* HEX images of one byte, below, in and above the flash-CS memory
FlashCsImages ==
    { Hex({a}) : a \in (CatalogFlashCs.start - 2) .. (CatalogFlashCs.start + MaxWriteable + 4) }

InitFlashCs ==
    /\ pc = "idle"
    /\ args = [ihex |-> NullHex, mem |-> CatalogFlashCs]
    /\ loc = NoLoc
    /\ retval = NoRet
    /\ sess = NoSession
    /\ rx_queue = << >>
    /\ bus = InitBus
    /\ last_tx = NoFrame
    /\ obs = NoObs

\* ppmbtl_programFlashCsMemory, lines 802-822: the range check, the length
\* to program and the content handed to the session
programFlashCsMemory_content ==
    \E ihex \in FlashCsImages, mem \in FlashCsMemories :
       LET memStart == mem.start
           memEnd == mem.start + mem.writeable - 1
           memLen == flashCs_memLen(ihex, mem, mem.writeable)
       IN  /\ args' = [ihex |-> ihex, mem |-> mem]
           /\ pc' = "returned"
           /\ retval' =
                 IF MissingData(ihex, memStart, memEnd)
                 THEN [result |-> PPM_FAIL_MISSING_DATA, memLen |-> 0, content |-> << >>]
                 ELSE [result |-> PPM_OK, memLen |-> memLen,
                       content |-> intelhex_getFilled(ihex, memStart, memLen)]
           /\ UNCHANGED << loc, sess, rx_queue, bus, last_tx, obs >>

NextFlashCs == programFlashCsMemory_content

SpecFlashCs == InitFlashCs /\ [][NextFlashCs]_vars


\* ---------------------------------------------------------------------------
\* C33
\* ---------------------------------------------------------------------------

\* n rounded up to a whole number of pages
RoundUpToPage(n, page) == CeilDiv(n, page) * page

\* C33: the number of bytes programmed into flash-CS is (hex_max - start + 1)
\* rounded up to a whole page and then clamped to the writeable length: it
\* never exceeds the writeable length of the flash-CS memory
C33_FlashCsLengthClamped ==
    [][ (pc' = "returned" /\ retval'.result = PPM_OK) =>
          LET mem == args'.mem
              rounded == RoundUpToPage(intelhex_maxAddress(args'.ihex) - mem.start + 1,
                                       mem.page)
          IN  /\ retval'.memLen = (IF rounded > mem.writeable THEN mem.writeable ELSE rounded)
              /\ retval'.memLen <= mem.writeable
              /\ Len(retval'.content) = retval'.memLen
      ]_vars


\* ---------------------------------------------------------------------------
\* C34
\* ---------------------------------------------------------------------------

\* a CRC entry point of the session API has been called
CrcSession ==
    /\ pc \in {"api", "returned"}
    /\ args.entry \in {"ppmsession_doFlashCrc", "ppmsession_doEepromCrc",
                       "ppmsession_doFlashCsCrc"}

\* C34: a CRC session (flash_crc, eeprom_crc, flash_cs_crc) transmits the
\* session frame and no page frame at all, whatever byte length is
\* requested, and then waits for the session ack (for the session time when
\* no ack is requested); a reply is accepted only with the page count
\* announced in the session frame
C34_CrcSessionSendsNoPage ==
    CrcSession =>
        /\ sess.state \notin {"page_tx", "page_ack"}
        /\ last_tx.type # "ftPage"
        /\ obs.page_tx = 0
        /\ obs.attempts = 0
        /\ Len(obs.frames) <= 1
        /\ (sess.state = "session_ack" =>
               last_tx = [type |-> "ftSession", data |-> Last(obs.frames)])
        /\ (pc = "returned" /\ ~obs.tx_failed =>
               /\ obs.ack_waits = 1
               /\ last_tx.data[2]
                     = (IF args.config.page_size = 0 THEN 0
                        ELSE CeilDiv(CeilHalf(Len(args.data)), args.config.page_size))
               /\ IF args.config.request_ack
                  THEN obs.wait = args.config.session_ack_timeout /\ obs.delays = << >>
                  ELSE obs.delays = << args.config.session_ack_timeout >>)
        /\ (pc = "returned" /\ obs.tx_failed => obs.ack_waits = 0)
        /\ (sess.ret_len > 0 => sess.rx_data[2] = last_tx.data[2])

\* a flash CRC over more than one page has returned the CRC of the chip
C34_CrcOverTwoPages ==
    /\ CrcSession
    /\ pc = "returned"
    /\ args.entry = "ppmsession_doFlashCrc"
    /\ retval.result = "ESP_OK"
    /\ retval.written
    /\ last_tx.data[2] >= 2


\* ---------------------------------------------------------------------------
\* C35
\* ---------------------------------------------------------------------------

\* the session the requested routine ends with
RoutineSession ==
    CASE args.memory = "PPM_MEM_FLASH" /\ args.action = "PPM_ACT_PROGRAM"
            -> PPM_SESSION_FLASH_PROG
      [] args.memory = "PPM_MEM_FLASH" /\ args.action = "PPM_ACT_VERIFY"
            -> PPM_SESSION_FLASH_CRC
      [] args.memory = "PPM_MEM_FLASH_CS" /\ args.action = "PPM_ACT_PROGRAM"
            -> PPM_SESSION_FLASH_CS_PROG
      [] args.memory = "PPM_MEM_FLASH_CS" /\ args.action = "PPM_ACT_VERIFY"
            -> PPM_SESSION_FLASH_CS_CRC
      [] args.memory = "PPM_MEM_NVRAM" /\ args.action = "PPM_ACT_PROGRAM"
            -> PPM_SESSION_EEPROM_PROG
      [] args.memory = "PPM_MEM_NVRAM" /\ args.action = "PPM_ACT_VERIFY"
            -> PPM_SESSION_EEPROM_CRC

\* C35: ppmbtl_doAction returns PPM_OK only if entry to programming mode
\* succeeded, a chip descriptor was found, and the requested program or
\* verify routine for the requested memory ran (its session is among the
\* sessions of the invocation, after the Unlock session) and returned
\* PPM_OK; it never returns PPM_OK when no program or verify routine ran
C35_OkOnlyAfterRoutine ==
    (doActionReturned /\ retval.result = PPM_OK) =>
        /\ EnterStepsUpTo(4)
        /\ obs.sessions # << >>
        /\ obs.sessions[1] = PPM_SESSION_UNLOCK
        /\ loc.chip_info # 0
        /\ RoutineSession \in Range(obs.sessions)
        /\ loc.retval = PPM_OK


\* ---------------------------------------------------------------------------
\* C36
\* ---------------------------------------------------------------------------

\* C36: a session entry point returns ESP_OK only if the session frame and
\* every page frame of the session were handed to the line successfully:
\* the session frame was transmitted, no page was given up, and every page
\* of a session with data was declared successful; also with
\* request_ack = false a failed transmission is reported as a failure
C36_OkOnlyIfAllTransmitted ==
    (pc = "returned" /\ retval.result = "ESP_OK") =>
        /\ Len(obs.frames) = 1
        /\ last_tx.type \in {"ftSession", "ftPage"}
        /\ (last_tx.type = "ftSession" => last_tx.data = obs.frames[1])
        /\ obs.aborted = << >>
        /\ ((sess.has_data /\ sess.page_count # 0) => obs.pages_ok = sess.page_count)


\* ---------------------------------------------------------------------------
\* C37
\* ---------------------------------------------------------------------------

\* C37: whenever the Unlock session reports success, the project id used
\* for the chip lookup is word 3 of an accepted Unlock reply; a project id
\* that no reply wrote (as in broadcast mode) is never used to select the
\* chip descriptor
C37_ProjectIdFromReply ==
    [][ ( /\ pc = "ppmsession_doUnlock"
          /\ pc' # "ppmsession_doUnlock"
          /\ ppmsession_doUnlock_ret(sess).result = "ESP_OK" ) =>
            /\ ~sess.rx_null
            /\ Len(sess.rx_data) = 4
            /\ loc'.project_id = sess.rx_data[4]
            /\ loc'.chip_info = mlxchip_getCamcuChip(sess.rx_data[4])
      ]_vars


(***************************************************************************)
(* The session API with replies that the decoder cut short                 *)
(***************************************************************************)
\* rx_done_cb (rmt_ppm.c:283-300) for an answer to the session frame of
\* which ppm_decode_symbols kept the first bytes only:
\* rmt_ppm_wait_for_response_frame (lines 517-518) makes data_len / 2 words
\* of them, 0 to 3
rx_done_cb_short ==
    /\ bus.session_acks > 0
    /\ \E item \in ChipSessionFrames, words \in 0 .. 3 :
          rx_queue' = xQueueSend(rx_queue, [item EXCEPT !.data = SubSeq(@, 1, words)])
    /\ bus' = [bus EXCEPT !.session_acks = @ - 1]
    /\ UNCHANGED << pc, args, loc, retval, sess, last_tx, obs >>

NextReply ==
    \/ NextSession
    \/ rx_done_cb_short

SpecReply == Init /\ [][NextReply]_vars


\* ---------------------------------------------------------------------------
\* C38
\* ---------------------------------------------------------------------------

\* C38: the session engine reads a word of a received reply only at an index
\* below the reply's word count: a Session-tagged reply shorter than 2 words
\* (a zero-word reply included) is rejected without words 0 or 1 being read
\* or written, and an entry point reads words 2 and 3 only of a 4-word reply
C38_ReplyReadInBounds ==
    /\ obs.oob = {}
    /\ sess.ret_len \in {0, 2, 3, 4}
    /\ (pc = "returned" /\ retval.written) => Len(sess.rx_data) = 4


(***************************************************************************)
(* The EEPROM page scan of ppmbtl_programEepromMemory and                  *)
(* ppmbtl_verifyEepromMemory (rmt_ppm.c), page by page, for a range of     *)
(* memory descriptors and HEX images                                       *)
(***************************************************************************)

\* non-volatile memories with a writeable length of 1..MaxNvWriteable bytes
MaxNvWriteable == 8

NvMemories ==
    { [CatalogNvMemory EXCEPT !.writeable = w, !.length = w + more, !.page = p] :
          w \in 1 .. MaxNvWriteable, more \in {0, 4}, p \in {2, 4} }

\* HEX images with bytes at even addresses of the memory and behind it
NvImages ==
    { Hex(S) : S \in (SUBSET { CatalogNvMemory.start + 2 * k :
                                 k \in 0 .. ((MaxNvWriteable + 5) \div 2) }) \ {{}} }

InitScan ==
    /\ pc = "idle"
    /\ args = [ihex |-> NullHex, mem |-> CatalogNvMemory, verify |-> FALSE]
    /\ loc = [currAddr |-> 0, currLen |-> 0, currOff |-> 0, inBlock |-> FALSE,
              result |-> PPM_FAIL_UNKNOWN]
    /\ retval = NoRet
    /\ sess = NoSession
    /\ rx_queue = << >>
    /\ bus = InitBus
    /\ last_tx = NoFrame
    /\ obs = NoObs

\* last address of the scan: of the writeable part when programming (line
\* 893), of the memory when verifying (line 960); the variant takes that of
\* the memory for both
scan_memEnd_of_memory(a) == a.mem.start + a.mem.length - 1

scan_memEnd(a) ==
    a.mem.start + (IF a.verify THEN a.mem.length ELSE a.mem.writeable) - 1

\* lines 892-904 and 959-967: the range check, the buffer of writeable bytes
\* and the start of the scan
eeprom_scan_enter ==
    /\ pc = "idle"
    /\ \E ihex \in NvImages, mem \in NvMemories, verify \in BOOLEAN :
          LET a == [ihex |-> ihex, mem |-> mem, verify |-> verify]
          IN  /\ args' = a
              /\ IF MissingData(ihex, mem.start, scan_memEnd(a))
                 THEN /\ pc' = "returned"
                      /\ retval' = [result |-> PPM_FAIL_MISSING_DATA]
                      /\ UNCHANGED loc
                 ELSE /\ pc' = "outer"
                      /\ loc' = [loc EXCEPT !.currAddr = mem.start, !.result = PPM_OK]
                      /\ UNCHANGED retval
    /\ UNCHANGED << sess, rx_queue, bus, last_tx, obs >>

\* lines 905-908 and 968-971: the outer loop is entered for the next run, or
\* left
eeprom_scan_outer ==
    /\ pc = "outer"
    /\ IF loc.currAddr < scan_memEnd(args) /\ loc.result = PPM_OK
       THEN /\ pc' = "inner"
            /\ loc' = [loc EXCEPT !.inBlock = TRUE, !.currLen = 0,
                                  !.currOff = W16(loc.currAddr - args.mem.start)]
            /\ UNCHANGED retval
       ELSE /\ pc' = "returned"
            /\ retval' = [result |-> loc.result]
            /\ UNCHANGED loc
    /\ UNCHANGED << args, sess, rx_queue, bus, last_tx, obs >>

\* lines 909-922 and 972-985: one page is examined; with HEX bytes it is
\* copied to content[currLen ..] and the run grows, without it the run ends
eeprom_scan_page ==
    /\ pc = "inner"
    /\ loc.inBlock /\ loc.currAddr < scan_memEnd(args)
    /\ obs' = [obs EXCEPT !.steps =
                   Append(@, Step("intelhex_countBytesInRange", loc.currAddr))]
    /\ IF intelhex_countBytesInRange(args.ihex, loc.currAddr, args.mem.page) # 0
       THEN loc' = [loc EXCEPT !.currLen = W16(@ + args.mem.page),
                               !.currAddr = @ + args.mem.page]
       ELSE loc' = [loc EXCEPT !.inBlock = FALSE, !.currAddr = @ + args.mem.page]
    /\ UNCHANGED << pc, args, retval, sess, rx_queue, bus, last_tx >>

\* lines 923-938 and 986-996: the run is complete; a run with bytes is
\* programmed, or verified, by a session that succeeds or fails
eeprom_scan_session ==
    /\ pc = "inner"
    /\ ~(loc.inBlock /\ loc.currAddr < scan_memEnd(args))
    /\ pc' = "outer"
    /\ IF loc.currLen > 0
       THEN \E ok \in BOOLEAN :
               /\ obs' = [obs EXCEPT !.steps =
                              Append(@, Step(IF args.verify THEN "ppmsession_doEepromCrc"
                                             ELSE "ppmsession_doEepromProgramming",
                                             loc.currOff))]
               /\ loc' = [loc EXCEPT !.result =
                              IF ok THEN PPM_OK
                              ELSE IF args.verify THEN PPM_FAIL_VERIFY_FAILED
                              ELSE PPM_FAIL_PROGRAMMING_FAILED]
       ELSE UNCHANGED << loc, obs >>
    /\ UNCHANGED << args, retval, sess, rx_queue, bus, last_tx >>

NextScan ==
    \/ eeprom_scan_enter
    \/ eeprom_scan_outer
    \/ eeprom_scan_page
    \/ eeprom_scan_session

SpecScan == InitScan /\ [][NextScan]_vars

\* the scan is one task that runs on until it returns
SpecScanFair == SpecScan /\ WF_vars(NextScan)


\* ---------------------------------------------------------------------------
\* C39
\* ---------------------------------------------------------------------------

\* C39: while the EEPROM is scanned for program or verify, the number of
\* bytes accumulated for one run never exceeds the size of the buffer
\* allocated for it, the writeable length of the non-volatile memory
\* (descriptors with writeable <= length)
C39_RunFitsBuffer ==
    pc \in {"outer", "inner"} =>
        /\ args.mem.writeable <= args.mem.length
        /\ loc.currLen <= args.mem.writeable


\* ---------------------------------------------------------------------------
\* C40
\* ---------------------------------------------------------------------------

\* addresses of the pages examined so far, in the order of examination
ExaminedPages ==
    LET looks == SelectSeq(obs.steps,
                           LAMBDA st : st.op = "intelhex_countBytesInRange")
    IN  [k \in 1 .. Len(looks) |-> looks[k].arg]

\* number of pages that start below the last address of the scanned range
PagesBelowEnd ==
    LET size == IF args.verify THEN args.mem.length ELSE args.mem.writeable
    IN  CeilDiv(size - 1, args.mem.page)

\* a session of the scan has failed
ScanSessionFailed ==
    loc.result \in {PPM_FAIL_PROGRAMMING_FAILED, PPM_FAIL_VERIFY_FAILED}

====
